---- MODULE Spec2Model ----
(***************************************************************************)
(* Model of the rrtc SFU.  The repository holds two signaling/media        *)
(* servers over the same data model (rooms of peers, a flag triple and an  *)
(* outbound queue per peer):                                               *)
(*   build = "webrtc" : the RoomManager / Room / Peer library of           *)
(*                      src/src/room.rs and src/src/peer.rs, driven by the *)
(*                      per-WebSocket connection handler of spec.md 4.1;   *)
(*   build = "str0m"  : the server of src/src/main.rs, whose rooms live    *)
(*                      behind one global mutex.                           *)
(* A connection c owns one Peer; the Peer is identified with c, and its    *)
(* participant id pid[c] is what the client sent in its Join.              *)
(***************************************************************************)
EXTENDS Integers, Sequences, FiniteSets, TLC

\* ---------------------------------------------------------------- universe
Conns == {"c1", "c2", "c3"}          \* WebSocket connections (one Peer each)
Ids == {"a", "b", "c"}               \* participant ids
RoomIds == {"r1"}                    \* room ids
NoConn == "none"                     \* Option::None for a peer / lock holder
NoId == "none"                       \* Option::None for a participant id
NoRoom == 0                          \* Option::None for a Room instance
MaxRoomInst == 3                     \* Room instances that may ever be created
RoomInsts == 1..MaxRoomInst
max_participants_per_room == 2       \* ServerConfig.max_participants_per_room
MaxUpdates == 1                      \* state_update messages per connection
MaxPackets == 2                      \* packets read per relay / forwarded
MaxListedTracks == 2                 \* local tracks of a peer in the fan-out scenario
MaxTracks == 1                       \* local tracks added per peer
MaxEgressFail == 1                   \* sockets whose write side may fail
MaxDropped == 2                      \* inbound messages dropped per connection
MaxRequests == 2                     \* RateLimiter.max_requests
MaxWindow == 2                       \* RateLimiter.window, in clock ticks
MaxClock == 4                        \* clock ticks that pass
MaxCalls == 4                        \* check_rate_limit calls
MaxOffers == 2                       \* Offer messages per connection

\* The participant id a client may put in its Join: c3 may reuse c1's id.
IdChoices(c) ==
  CASE c = "c1" -> {"a"} [] c = "c2" -> {"b"} [] OTHER -> {"a", "c"}
\* display name of the participant behind a connection (Join.name)
NameOf(c) == CASE c = "c1" -> "Alice" [] c = "c2" -> "Bob" [] OTHER -> "Carol"

\* The first frame a client may send on its WebSocket: a Join, a well-formed
\* message of another type, a binary frame, a close frame, a text frame that
\* is not a ClientMessage, or nothing at all (the stream ends or fails).
FirstFrames == {"join", "other", "binary", "close", "garbage", "eof"}
NoFrame == "none"                    \* nothing was read yet
IsText(m) == m \in {"join", "other", "garbage"}      \* Message::Text(t)
Parses(m) == m \in {"join", "other"}                 \* serde_json::from_str
IsJoin(m) == m = "join"                              \* ClientMessage::Join

\* (mutant) a handler that takes any message that parses for a Join
WellFormedJoinAnyMessage(m) == m # "eof" /\ IsText(m) /\ Parses(m)

\* handle_ws_connection: the tests the first frame passes before the handler
\* goes on to the join.
WellFormedJoin(m) == m # "eof" /\ IsText(m) /\ Parses(m) /\ IsJoin(m)

\* Peer::new: muted = false, video_on = true, screen_sharing = false
DefaultFlags == <<FALSE, TRUE, FALSE>>
Triples == {<<TRUE, FALSE, FALSE>>, <<FALSE, FALSE, TRUE>>}

\* Media: RTPCodecType, TrackType and the ids of remote tracks.  A track id
\* is modelled by the set of marker words it contains.
Kinds == {"audio", "video"}
TrackTypes == {"Camera", "Screen", "Audio"}
TrackIds == {{"audio"}, {"screen", "audio"}, {"camera"}}
NoTrack == [id |-> {}, kind |-> "none"]
NoSnap == [members |-> {}, ready |-> {},
           flags |-> [q \in {"c1", "c2", "c3"} |-> <<FALSE, TRUE, FALSE>>]]
NoWrites == [q \in Conns |-> 0]
NoLog == [q \in Conns |-> <<>>]

\* TrackType::from_track_id: "screen" is looked for first, then "audio".
from_track_id(track_id) ==
  IF "screen" \in track_id THEN "Screen"
  ELSE IF "audio" \in track_id THEN "Audio"
  ELSE "Camera"

\* Peer::add_local_track: the codec kind a local track of a type is made with.
KindOf(track_type) == IF track_type = "Audio" THEN "audio" ELSE "video"

VARIABLES
  build,            \* which server runs
  rooms,            \* RoomManager.rooms / main.rs Rooms: room id -> Room instance
  next_room,        \* number of Room instances created so far
  peers,            \* Room.peers: instance -> (participant id -> connection)
  wlock,            \* Room.peers RwLock: holder of the write guard
  rlock,            \* Room.peers RwLock: holders of a read guard
  rtc_lock,         \* main.rs Peer.rtc mutex: the handler that holds it
  pc,               \* position of each connection handler
  rid,              \* room id of the connection's Join
  pid,              \* participant id of the connection's Join
  first,            \* the first frame read on the connection
  room_of,          \* the Arc<Room> the handler holds
  pc_closed,        \* peer.close() has run on the peer connection
  muted, video_on, screen_sharing,   \* Peer flags, one lock each
  ws_tx,            \* per-peer outbound queue: every message enqueued so far
  rx_open,          \* the queue's receiver (the egress task) is alive
  upd,              \* the state_update being handled: its triple
  notify,           \* ws_sends_to_notify / the peer remove_peer took out
  n_upd,            \* state_update messages handled per connection
  local_tracks,     \* Peer.local_tracks: sequence of [track_type, kind]
  media,            \* main.rs: the mids a peer's Rtc has a writer for
  addr_to_participant, \* main.rs Room.addr_to_participant, per client address
  relay_pc,         \* position of the relay task of each publisher
  relay_track,      \* the remote track / media packet being relayed
  relay_room,       \* the Room whose peer map the relay task holds
  relay_todo,       \* recipients of the snapshot not yet visited
  relay_snap,       \* the room as it was when the snapshot was taken
  relay_writes,     \* recipients written to in this iteration
  n_pkt,            \* packets read per relay
  obs_pc,           \* get_state caller: position
  obs_peer,         \* get_state caller: the peer it reads
  obs_val,          \* get_state caller: fields read so far
  obs_pre,          \* per peer: its flags when its latest update_state began
  obs_over,         \* update_state calls that overlapped the get_state call
  sock,             \* what the egress task has written to each socket
  n_drop,           \* inbound messages the read loop dropped, per connection
  config,           \* a ServerConfig
  valid,            \* what ServerConfig::validate returned for it
  limiter,          \* a RateLimiter: max_requests, window, requests
  clock,            \* Instant::now()
  calls,            \* the check_rate_limit calls: when, and what was returned
  relay_log,        \* per relay and recipient: the writes made, oldest first
  write_err,        \* per peer: what a write to its local tracks returns
  send_err,         \* per peer: a send to its outbound queue has failed
  n_offer           \* Offer messages the handler of each connection took

mgrVars == <<rooms, next_room>>
lockVars == <<wlock, rlock, rtc_lock>>
joinVars == <<rid, pid, first>>
flagVars == <<muted, video_on, screen_sharing>>
chanVars == <<ws_tx, rx_open>>
updVars == <<upd, notify, n_upd>>
trackVars == <<local_tracks, media, addr_to_participant>>
relayVars == <<relay_pc, relay_track, relay_room, relay_todo, relay_snap,
              relay_writes, n_pkt>>
obsVars == <<obs_pc, obs_peer, obs_val, obs_pre, obs_over>>
sockVars == <<sock, n_drop>>
utilVars == <<config, valid, limiter, clock, calls>>
writeVars == <<relay_log, write_err>>
sigVars == <<send_err, n_offer>>

vars == <<build, mgrVars, peers, lockVars, pc, joinVars, room_of, pc_closed,
          flagVars, chanVars, updVars, trackVars, relayVars, obsVars,
          sockVars, utilVars, writeVars, sigVars>>

\* ---------------------------------------------------------------- messages
ParticipantJoined(i, n) == [type |-> "participant_joined", id |-> i, name |-> n]
ParticipantLeft(i) == [type |-> "participant_left", participant_id |-> i]
StateUpdate(i, t) ==
  [type |-> "state_update", participant_id |-> i,
   muted |-> t[1], video_on |-> t[2], screen_sharing |-> t[3]]
Joined(i) == [type |-> "joined", your_id |-> i]
\* messages.rs ParticipantInfo of a peer: its id, name and flags.
ParticipantInfo(q) ==
  [id |-> pid[q], name |-> NameOf(q), muted |-> muted[q],
   video_on |-> video_on[q], screen_sharing |-> screen_sharing[q]]
\* messages.rs ServerMessage::Joined with the roster of the peers `members`.
JoinedWith(i, members) ==
  [type |-> "joined", your_id |-> i,
   participants |-> {ParticipantInfo(q) : q \in members}]
Answer(sdp) == [type |-> "answer", sdp |-> sdp]
ErrorMsg(m, code) == [type |-> "error", message |-> m, code |-> code]

\* ---------------------------------------------------------------- helpers
EmptyPeers == [i \in Ids |-> NoConn]
Members(h) == {peers[h][i] : i \in Ids} \ {NoConn}
peer_count(h) == Cardinality({i \in Ids : peers[h][i] # NoConn})
\* (mutant) an is_empty that answers true for every room
is_empty_always(h) == TRUE

is_empty(h) == \A i \in Ids : peers[h][i] = NoConn
get_state(c) == <<muted[c], video_on[c], screen_sharing[c]>>
Count(q, m) == Cardinality({k \in 1..Len(ws_tx[q]) : ws_tx[q][k] = m})

\* Peer::send_message to every peer of `targets`: the message is pushed on
\* the queue; the send fails (and is only logged) when the receiver is gone.
send_message(targets, msg) ==
  [q \in Conns |->
     IF q \in targets /\ rx_open[q] THEN Append(ws_tx[q], msg) ELSE ws_tx[q]]

\* Peer::send_message / ws_send.send to every peer of `targets`: the peers
\* for which a send has returned Err so far (the receiver of the queue was
\* gone); the callers log or ignore the Err.
send_failed(targets) ==
  [q \in Conns |-> send_err[q] \/ (q \in targets /\ ~rx_open[q])]

\* tokio RwLock on Room.peers: a read guard needs no writer, a write guard
\* needs no holder at all.
ReadFree(h) == wlock[h] = NoConn
WriteFree(h) == wlock[h] = NoConn /\ rlock[h] = {}

\* The server after construction; `b` is the server that runs and `arrive`
\* the connections that will be accepted.
InitServer(b, arrive) ==
  /\ build = b
  /\ rooms = [r \in RoomIds |-> NoRoom]
  /\ next_room = 0
  /\ peers = [h \in RoomInsts |-> EmptyPeers]
  /\ wlock = [h \in RoomInsts |-> NoConn]
  /\ rlock = [h \in RoomInsts |-> {}]
  /\ rtc_lock = [c \in Conns |-> NoConn]
  /\ pc = [c \in Conns |-> IF c \in arrive THEN "accepted" ELSE "absent"]
  /\ rid = [c \in Conns |-> "r1"]
  /\ pid = [c \in Conns |-> "a"]
  /\ first = [c \in Conns |-> NoFrame]
  /\ room_of = [c \in Conns |-> NoRoom]
  /\ pc_closed = [c \in Conns |-> FALSE]
  /\ muted = [c \in Conns |-> DefaultFlags[1]]
  /\ video_on = [c \in Conns |-> DefaultFlags[2]]
  /\ screen_sharing = [c \in Conns |-> DefaultFlags[3]]
  /\ ws_tx = [c \in Conns |-> <<>>]
  /\ rx_open = [c \in Conns |-> TRUE]
  /\ upd = [c \in Conns |-> DefaultFlags]
  /\ notify = [c \in Conns |-> {}]
  /\ n_upd = [c \in Conns |-> 0]
  /\ local_tracks = [c \in Conns |-> <<>>]
  /\ media = [c \in Conns |-> {}]
  /\ addr_to_participant = [c \in Conns |-> NoId]
  /\ relay_pc = [c \in Conns |-> "none"]
  /\ relay_track = [c \in Conns |-> NoTrack]
  /\ relay_room = [c \in Conns |-> NoRoom]
  /\ relay_todo = [c \in Conns |-> {}]
  /\ relay_snap = [c \in Conns |-> NoSnap]
  /\ relay_writes = [c \in Conns |-> NoWrites]
  /\ n_pkt = [c \in Conns |-> 0]
  /\ obs_pc = "idle"
  /\ obs_peer = "c1"
  /\ obs_val = DefaultFlags
  /\ obs_pre = [c \in Conns |-> DefaultFlags]
  /\ obs_over = 0
  /\ sock = [c \in Conns |-> <<>>]
  /\ n_drop = [c \in Conns |-> 0]
  /\ relay_log = [c \in Conns |-> NoLog]
  /\ write_err = [c \in Conns |-> "Ok"]
  /\ send_err = [c \in Conns |-> FALSE]
  /\ n_offer = [c \in Conns |-> 0]

\* ServerConfig::default(): the fields ServerConfig::validate reads (the
\* ICE servers by name, an Option<String> path by its variant).
DefaultServerConfig ==
  [signaling_port |-> 8080, max_participants_per_room |-> 50,
   ice_servers |-> <<"stun", "stun1", "turn">>, tls_enabled |-> FALSE,
   tls_cert_path |-> "None", tls_key_path |-> "None"]

\* RateLimiter::new(0, 0): a limiter that is not in use.
NoLimiter == [max_requests |-> 0, window |-> 0, requests |-> <<>>]

\* The default configuration is loaded and no RateLimiter is in use.
InitUtil ==
  /\ config = DefaultServerConfig
  /\ valid = "none"
  /\ limiter = NoLimiter
  /\ clock = 0
  /\ calls = <<>>

\* State after construction.
InitWith(b, arrive) == InitServer(b, arrive) /\ InitUtil

Init == \E b \in {"webrtc", "str0m"} : InitWith(b, Conns)

\* ------------------------------------------------ webrtc build: the handler
\* spec.md 4.1 step 3: the first message must parse as Join{room, participant,
\* name}; the handler then resolves the room through the manager.
RecvJoin(c) ==
  /\ build = "webrtc"
  /\ pc[c] = "accepted"
  /\ \E r \in RoomIds, i \in IdChoices(c) :
       /\ rid' = [rid EXCEPT ![c] = r]
       /\ pid' = [pid EXCEPT ![c] = i]
  /\ first' = [first EXCEPT ![c] = "join"]
  /\ pc' = [pc EXCEPT ![c] = "goc_read"]
  /\ UNCHANGED <<build, sigVars, writeVars, utilVars, sockVars, rooms, next_room,
                 peers, wlock, rlock, room_of, muted, video_on,
                 screen_sharing, ws_tx, rx_open, pc_closed, upd, notify,
                 n_upd, rtc_lock, trackVars, relayVars, obsVars>>

\* RoomManager::get_or_create_room, first half: look the id up under the read
\* guard and return the room when it is there; the guard is dropped on a miss.
get_or_create_room_read(c) ==
  /\ build = "webrtc"
  /\ pc[c] = "goc_read"
  /\ IF rooms[rid[c]] # NoRoom
       THEN /\ room_of' = [room_of EXCEPT ![c] = rooms[rid[c]]]
            /\ pc' = [pc EXCEPT ![c] = "have_room"]
       ELSE /\ pc' = [pc EXCEPT ![c] = "goc_write"]
            /\ UNCHANGED room_of
  /\ UNCHANGED <<build, sigVars, writeVars, utilVars, sockVars, rooms, next_room,
                 peers, wlock, rlock, rid, pid, first, muted, video_on,
                 screen_sharing, ws_tx, rx_open, pc_closed, upd, notify,
                 n_upd, rtc_lock, trackVars, relayVars, obsVars>>

\* The instance RoomManager::get_or_create_room registers on a miss: the room
\* it has just built with Room::new, whatever the map holds by then.
InsertedRoom(c) == next_room + 1

\* RoomManager::get_or_create_room, second half: Room::new and an insert under
\* the write guard, with no second look at the map; the new room is returned.
get_or_create_room_write(c) ==
  /\ build = "webrtc"
  /\ pc[c] = "goc_write"
  /\ next_room < MaxRoomInst
  /\ next_room' = next_room + 1
  /\ rooms' = [rooms EXCEPT ![rid[c]] = InsertedRoom(c)]
  /\ room_of' = [room_of EXCEPT ![c] = InsertedRoom(c)]
  /\ pc' = [pc EXCEPT ![c] = "have_room"]
  /\ UNCHANGED <<build, sigVars, writeVars, utilVars, sockVars, peers, wlock, rlock,
                 rid, pid, first, muted, video_on, screen_sharing, ws_tx,
                 rx_open, pc_closed, upd, notify, n_upd, rtc_lock, trackVars,
                 relayVars, obsVars>>

\* spec.md 4.1 step 4: a room that holds max_participants_per_room peers
\* answers Error{403, "Room is full"} and the connection is closed.
RoomFull(h) == peer_count(h) >= max_participants_per_room

CheckRoomFull(c) ==
  /\ build = "webrtc"
  /\ pc[c] = "have_room"
  /\ ReadFree(room_of[c])
  /\ IF RoomFull(room_of[c])
       THEN /\ ws_tx' = send_message({c}, ErrorMsg("Room is full", 403))
            /\ send_err' = send_failed({c})
            /\ pc' = [pc EXCEPT ![c] = "rejected"]
       ELSE /\ pc' = [pc EXCEPT ![c] = "ap_notify"]
            /\ UNCHANGED <<ws_tx, send_err>>
  /\ UNCHANGED <<build, n_offer, writeVars, utilVars, sockVars, rooms, next_room,
                 peers, wlock, rlock, rid, pid, first, room_of, muted,
                 video_on, screen_sharing, rx_open, pc_closed, upd, notify,
                 n_upd, rtc_lock, trackVars, relayVars, obsVars>>

\* Has a Joined message been put on the queue of connection c?
HasJoined(c) == \E k \in 1..Len(ws_tx[c]) : ws_tx[c][k].type = "joined"

\* spec.md 4.1 step 6: before it calls Room::add_peer the handler snapshots
\* the roster (Room::get_all_peers, under the read guard) and sends
\* Joined{your_id, participants} to the new peer.
SendJoined(c) ==
  /\ build = "webrtc"
  /\ pc[c] = "ap_notify"
  /\ ~HasJoined(c)
  /\ ReadFree(room_of[c])
  /\ ws_tx' = send_message({c}, JoinedWith(pid[c], Members(room_of[c])))
  /\ send_err' = send_failed({c})
  /\ UNCHANGED <<build, n_offer, writeVars, utilVars, sockVars, rooms,
                 next_room, peers, wlock, rlock, pc, rid, pid, first,
                 room_of, muted, video_on, screen_sharing, rx_open,
                 pc_closed, upd, notify, n_upd, rtc_lock, trackVars,
                 relayVars, obsVars>>

\* (mutant) a Room::add_peer that also notifies the peer it is adding
JoinRecipientsWithSelf(c) == Members(room_of[c]) \cup {c}

\* The peers Room::add_peer notifies: every peer the map holds at that time.
JoinRecipients(c) == Members(room_of[c])

\* Room::add_peer, first half: under the read guard every peer in the map is
\* sent ParticipantJoined{id, name}; the guard is dropped.
add_peer_notify(c) ==
  /\ build = "webrtc"
  /\ pc[c] = "ap_notify"
  /\ ReadFree(room_of[c])
  /\ ws_tx' = send_message(JoinRecipients(c),
                           ParticipantJoined(pid[c], NameOf(c)))
  /\ send_err' = send_failed(JoinRecipients(c))
  /\ pc' = [pc EXCEPT ![c] = "ap_insert"]
  /\ UNCHANGED <<build, n_offer, writeVars, utilVars, sockVars, rooms, next_room,
                 peers, wlock, rlock, rid, pid, first, room_of, muted,
                 video_on, screen_sharing, rx_open, pc_closed, upd, notify,
                 n_upd, rtc_lock, trackVars, relayVars, obsVars>>

\* (mutant) an insert under a key that is not the peer's id
InsertKeyOther(c) == CHOOSE i \in Ids : i # pid[c]

\* Room::add_peer: the key the peer is stored under, peer.id.
InsertKey(c) == pid[c]

\* Room::add_peer, second half: the peer is inserted under the write guard
\* (HashMap::insert replaces an entry with the same id).
add_peer_insert(c) ==
  /\ build = "webrtc"
  /\ pc[c] = "ap_insert"
  /\ WriteFree(room_of[c])
  /\ peers' = [peers EXCEPT ![room_of[c]][InsertKey(c)] = c]
  /\ pc' = [pc EXCEPT ![c] = "joined"]
  /\ UNCHANGED <<build, sigVars, writeVars, utilVars, sockVars, rooms, next_room,
                 wlock, rlock, rid, pid, first, room_of, muted, video_on,
                 screen_sharing, ws_tx, rx_open, pc_closed, upd, notify,
                 n_upd, rtc_lock, trackVars, relayVars, obsVars>>

\* The WebSocket of a joined connection closes: the read loop ends and the
\* handler goes on to Room::remove_peer (spec.md 4.1 step 9).
WsClose(c) ==
  /\ build = "webrtc"
  /\ pc[c] = "joined"
  /\ pc' = [pc EXCEPT ![c] = "rp_remove"]
  /\ UNCHANGED <<build, sigVars, writeVars, utilVars, sockVars, rooms, next_room,
                 peers, wlock, rlock, rid, pid, first, room_of, muted,
                 video_on, screen_sharing, ws_tx, rx_open, pc_closed, upd,
                 notify, n_upd, rtc_lock, trackVars, relayVars, obsVars>>

\* (mutant) a remove_peer that leaves the entry in the map
MapAfterRemoveKept(c) == peers

\* Room::remove_peer, peers_guard.remove(peer_id): the member maps after it.
MapAfterRemove(c) == [peers EXCEPT ![room_of[c]][pid[c]] = NoConn]

\* Room::remove_peer, start: take the write guard and remove whatever peer the
\* map holds under the id.
remove_peer_remove(c) ==
  /\ build = "webrtc"
  /\ pc[c] = "rp_remove"
  /\ WriteFree(room_of[c])
  /\ wlock' = [wlock EXCEPT ![room_of[c]] = c]
  /\ peers' = MapAfterRemove(c)
  /\ notify' = [notify EXCEPT ![c] = {peers[room_of[c]][pid[c]]} \ {NoConn}]
  /\ pc' = [pc EXCEPT ![c] = "rp_close"]
  /\ UNCHANGED <<build, sigVars, writeVars, utilVars, sockVars, rooms, next_room,
                 rlock, rid, pid, first, room_of, muted, video_on,
                 screen_sharing, ws_tx, rx_open, pc_closed, upd, n_upd,
                 rtc_lock, trackVars, relayVars, obsVars>>

\* Room::remove_peer, middle: peer.close() is awaited on the removed peer, if
\* there was one, with the write guard still held.
remove_peer_close(c) ==
  /\ build = "webrtc"
  /\ pc[c] = "rp_close"
  /\ pc_closed' = [q \in Conns |-> pc_closed[q] \/ q \in notify[c]]
  /\ pc' = [pc EXCEPT ![c] = "rp_notify"]
  /\ UNCHANGED <<build, sigVars, writeVars, utilVars, sockVars, rooms, next_room,
                 peers, wlock, rlock, rid, pid, first, room_of, muted,
                 video_on, screen_sharing, ws_tx, rx_open, upd, notify, n_upd,
                 rtc_lock, trackVars, relayVars, obsVars>>

\* The peers Room::remove_peer sends ParticipantLeft to: every peer left in
\* the map, whether or not the id was found.
LeftRecipients(c) == Members(room_of[c])

\* Room::remove_peer, end: ParticipantLeft goes to the recipients and the
\* write guard is dropped; the handler then asks the manager to collect the
\* room (spec.md 4.1 step 9).
remove_peer_notify(c) ==
  /\ build = "webrtc"
  /\ pc[c] = "rp_notify"
  /\ ws_tx' = send_message(LeftRecipients(c), ParticipantLeft(pid[c]))
  /\ send_err' = send_failed(LeftRecipients(c))
  /\ wlock' = [wlock EXCEPT ![room_of[c]] = NoConn]
  /\ notify' = [notify EXCEPT ![c] = {}]
  /\ pc' = [pc EXCEPT ![c] = "ce_get"]
  /\ UNCHANGED <<build, n_offer, writeVars, utilVars, sockVars, rooms, next_room,
                 peers, rlock, rid, pid, first, room_of, muted, video_on,
                 screen_sharing, rx_open, pc_closed, upd, n_upd, rtc_lock,
                 trackVars, relayVars, obsVars>>

\* RoomManager::cleanup_empty_room, step 1: get_room(id) under the manager's
\* read guard; the handler's room_of now names the room that call returned.
cleanup_empty_room_get(c) ==
  /\ build = "webrtc"
  /\ pc[c] = "ce_get"
  /\ room_of' = [room_of EXCEPT ![c] = rooms[rid[c]]]
  /\ pc' = [pc EXCEPT ![c] = IF rooms[rid[c]] = NoRoom THEN "done" ELSE "ce_empty"]
  /\ UNCHANGED <<build, sigVars, writeVars, utilVars, sockVars, rooms, next_room,
                 peers, wlock, rlock, rid, pid, first, muted, video_on,
                 screen_sharing, ws_tx, rx_open, pc_closed, upd, notify,
                 n_upd, rtc_lock, trackVars, relayVars, obsVars>>

\* RoomManager::cleanup_empty_room, step 2: room.is_empty() under the room's
\* read guard.
cleanup_empty_room_check(c) ==
  /\ build = "webrtc"
  /\ pc[c] = "ce_empty"
  /\ ReadFree(room_of[c])
  /\ pc' = [pc EXCEPT ![c] = IF is_empty(room_of[c]) THEN "ce_remove" ELSE "done"]
  /\ UNCHANGED <<build, sigVars, writeVars, utilVars, sockVars, rooms, next_room,
                 peers, wlock, rlock, rid, pid, first, room_of, muted,
                 video_on, screen_sharing, ws_tx, rx_open, pc_closed, upd,
                 notify, n_upd, rtc_lock, trackVars, relayVars, obsVars>>

\* RoomManager::cleanup_empty_room, step 3: rooms.remove(id) under the
\* manager's write guard, with no second look at the room.
cleanup_empty_room_remove(c) ==
  /\ build = "webrtc"
  /\ pc[c] = "ce_remove"
  /\ rooms' = [rooms EXCEPT ![rid[c]] = NoRoom]
  /\ pc' = [pc EXCEPT ![c] = "done"]
  /\ UNCHANGED <<build, sigVars, writeVars, utilVars, sockVars, next_room, peers,
                 wlock, rlock, rid, pid, first, room_of, muted, video_on,
                 screen_sharing, ws_tx, rx_open, pc_closed, upd, notify,
                 n_upd, rtc_lock, trackVars, relayVars, obsVars>>

\* ------------------------------------------- webrtc build: the peer's flags
\* Positions of a handler inside Peer::update_state.
Updating == {"us_muted", "us_video_on", "us_screen_sharing"}

\* Positions of the get_state caller inside Peer::get_state.
Reading == {"gs_muted", "gs_video_on", "gs_screen_sharing"}

\* spec.md 4.1 step 7: a state_update message of a joined connection calls
\* update_state on the connection's peer.
RecvStateUpdate(c) ==
  /\ build = "webrtc"
  /\ pc[c] = "joined"
  /\ n_upd[c] < MaxUpdates
  /\ \E t \in Triples : upd' = [upd EXCEPT ![c] = t]
  /\ pc' = [pc EXCEPT ![c] = "us_muted"]
  /\ obs_pre' = [obs_pre EXCEPT ![c] = get_state(c)]
  /\ obs_over' = IF obs_pc \in Reading /\ obs_peer = c
                   THEN obs_over + 1 ELSE obs_over
  /\ UNCHANGED <<build, sigVars, writeVars, utilVars, sockVars, mgrVars, peers,
                 lockVars, joinVars, room_of, pc_closed, flagVars, chanVars,
                 notify, n_upd, trackVars, relayVars, obs_pc, obs_peer,
                 obs_val>>

\* Peer::update_state: the write guard of `muted` is taken, the field is
\* written, the guard is dropped.
update_state_muted(c) ==
  /\ pc[c] = "us_muted"
  /\ muted' = [muted EXCEPT ![c] = upd[c][1]]
  /\ pc' = [pc EXCEPT ![c] = "us_video_on"]
  /\ UNCHANGED <<build, sigVars, writeVars, utilVars, sockVars, mgrVars, peers,
                 lockVars, joinVars, room_of, pc_closed, video_on,
                 screen_sharing, chanVars, updVars, trackVars, relayVars,
                 obsVars>>

\* Peer::update_state: the same for `video_on`.
update_state_video_on(c) ==
  /\ pc[c] = "us_video_on"
  /\ video_on' = [video_on EXCEPT ![c] = upd[c][2]]
  /\ pc' = [pc EXCEPT ![c] = "us_screen_sharing"]
  /\ UNCHANGED <<build, sigVars, writeVars, utilVars, sockVars, mgrVars, peers,
                 lockVars, joinVars, room_of, pc_closed, muted,
                 screen_sharing, chanVars, updVars, trackVars, relayVars,
                 obsVars>>

\* Peer::update_state: the same for `screen_sharing`; the call returns.
update_state_screen_sharing(c) ==
  /\ pc[c] = "us_screen_sharing"
  /\ screen_sharing' = [screen_sharing EXCEPT ![c] = upd[c][3]]
  /\ pc' = [pc EXCEPT ![c] = "bc_state"]
  /\ UNCHANGED <<build, sigVars, writeVars, utilVars, sockVars, mgrVars, peers,
                 lockVars, joinVars, room_of, pc_closed, muted, video_on,
                 chanVars, updVars, trackVars, relayVars, obsVars>>

\* (mutant) a broadcast that does not skip from_id
BroadcastRecipientsAll(c) == Members(room_of[c])

\* Room::broadcast_message: the peers of the map whose id is not from_id.
BroadcastRecipients(c) ==
  {peers[room_of[c]][j] : j \in Ids \ {pid[c]}} \ {NoConn}

\* Room::broadcast_message(from_id, msg): under a read guard the message is
\* sent to every peer stored under another id.
broadcast_message(c) ==
  /\ pc[c] = "bc_state"
  /\ ReadFree(room_of[c])
  /\ send_err' = send_failed(BroadcastRecipients(c))
  /\ ws_tx' = send_message(BroadcastRecipients(c),
                           StateUpdate(pid[c], upd[c]))
  /\ n_upd' = [n_upd EXCEPT ![c] = @ + 1]
  /\ pc' = [pc EXCEPT ![c] = "joined"]
  /\ UNCHANGED <<build, n_offer, writeVars, utilVars, sockVars, mgrVars, peers,
                 lockVars, joinVars, room_of, pc_closed, flagVars, rx_open,
                 upd, notify, trackVars, relayVars, obsVars>>

\* A task that holds the peer calls Peer::get_state.
GetStateCall(p) ==
  /\ build = "webrtc"
  /\ obs_pc \in {"idle", "returned"}
  /\ pc[p] \in {"joined", "bc_state"} \cup Updating
  /\ obs_pc' = "gs_muted"
  /\ obs_peer' = p
  /\ obs_over' = IF pc[p] \in Updating THEN 1 ELSE 0
  /\ UNCHANGED <<build, sigVars, writeVars, utilVars, sockVars, mgrVars, peers,
                 lockVars, pc, joinVars, room_of, pc_closed, flagVars,
                 chanVars, updVars, trackVars, relayVars, obs_val, obs_pre>>

\* Peer::get_state: `muted` is read under its own read guard.
get_state_muted ==
  /\ obs_pc = "gs_muted"
  /\ obs_val' = [obs_val EXCEPT ![1] = muted[obs_peer]]
  /\ obs_pc' = "gs_video_on"
  /\ UNCHANGED <<build, sigVars, writeVars, utilVars, sockVars, mgrVars, peers,
                 lockVars, pc, joinVars, room_of, pc_closed, flagVars,
                 chanVars, updVars, trackVars, relayVars, obs_peer, obs_pre,
                 obs_over>>

\* Peer::get_state: `video_on` is read under its own read guard.
get_state_video_on ==
  /\ obs_pc = "gs_video_on"
  /\ obs_val' = [obs_val EXCEPT ![2] = video_on[obs_peer]]
  /\ obs_pc' = "gs_screen_sharing"
  /\ UNCHANGED <<build, sigVars, writeVars, utilVars, sockVars, mgrVars, peers,
                 lockVars, pc, joinVars, room_of, pc_closed, flagVars,
                 chanVars, updVars, trackVars, relayVars, obs_peer, obs_pre,
                 obs_over>>

\* Peer::get_state: `screen_sharing` is read and the triple is returned.
get_state_screen_sharing ==
  /\ obs_pc = "gs_screen_sharing"
  /\ obs_val' = [obs_val EXCEPT ![3] = screen_sharing[obs_peer]]
  /\ obs_pc' = "returned"
  /\ UNCHANGED <<build, sigVars, writeVars, utilVars, sockVars, mgrVars, peers,
                 lockVars, pc, joinVars, room_of, pc_closed, flagVars,
                 chanVars, updVars, trackVars, relayVars, obs_peer, obs_pre,
                 obs_over>>

\* A task that holds the peer calls Peer::update_state with a triple of its
\* own; the task ends when the call has returned.
UpdateStateCall(p) ==
  /\ build = "webrtc"
  /\ obs_pc \in {"idle", "returned"}
  /\ pc[p] \in {"joined", "bc_state"} \cup Updating
  /\ \E t \in Triples : obs_val' = t
  /\ obs_peer' = p
  /\ obs_pc' = "tus_muted"
  /\ UNCHANGED <<build, sigVars, writeVars, utilVars, sockVars, mgrVars, peers,
                 lockVars, pc, joinVars, room_of, pc_closed, flagVars,
                 chanVars, updVars, trackVars, relayVars, obs_pre, obs_over>>

\* Peer::update_state called by the task: `muted` is written under its own
\* write guard.
task_update_state_muted ==
  /\ obs_pc = "tus_muted"
  /\ muted' = [muted EXCEPT ![obs_peer] = obs_val[1]]
  /\ obs_pc' = "tus_video_on"
  /\ UNCHANGED <<build, sigVars, writeVars, utilVars, sockVars, mgrVars, peers,
                 lockVars, pc, joinVars, room_of, pc_closed, video_on,
                 screen_sharing, chanVars, updVars, trackVars, relayVars,
                 obs_peer, obs_val, obs_pre, obs_over>>

\* Peer::update_state called by the task: the same for `video_on`.
task_update_state_video_on ==
  /\ obs_pc = "tus_video_on"
  /\ video_on' = [video_on EXCEPT ![obs_peer] = obs_val[2]]
  /\ obs_pc' = "tus_screen_sharing"
  /\ UNCHANGED <<build, sigVars, writeVars, utilVars, sockVars, mgrVars, peers,
                 lockVars, pc, joinVars, room_of, pc_closed, muted,
                 screen_sharing, chanVars, updVars, trackVars, relayVars,
                 obs_peer, obs_val, obs_pre, obs_over>>

\* Peer::update_state called by the task: the same for `screen_sharing`; the
\* call returns.
task_update_state_screen_sharing ==
  /\ obs_pc = "tus_screen_sharing"
  /\ screen_sharing' = [screen_sharing EXCEPT ![obs_peer] = obs_val[3]]
  /\ obs_pc' = "updated"
  /\ UNCHANGED <<build, sigVars, writeVars, utilVars, sockVars, mgrVars, peers,
                 lockVars, pc, joinVars, room_of, pc_closed, muted, video_on,
                 chanVars, updVars, trackVars, relayVars, obs_peer, obs_val,
                 obs_pre, obs_over>>

\* ------------------------------------------------ webrtc build: the relay
\* relay_track: the indexes of the local tracks of q whose track_type and
\* codec kind equal those of the remote track.
Matching(c, q) ==
  {n \in 1..Len(local_tracks[q]) :
     /\ local_tracks[q][n].track_type = from_track_id(relay_track[c].id)
     /\ local_tracks[q][n].kind = relay_track[c].kind}

\* (mutant) a relay loop without the `peer_id == from_id` test
RelayRecipientsAll(c) == Members(relay_room[c])

\* relay_track: the peers of the map the loop does not skip, those stored
\* under an id other than from_id.
RelayRecipients(c) ==
  {peers[relay_room[c]][j] : j \in Ids \ {pid[c]}} \ {NoConn}

\* spec.md 3: a local track is added to a joined peer for media it is to
\* receive (Peer::add_local_track pushes it onto local_tracks).
AddLocalTrack(c) ==
  /\ build = "webrtc"
  /\ pc[c] = "joined"
  /\ ~pc_closed[c]
  /\ Len(local_tracks[c]) < MaxTracks
  /\ \E tt \in TrackTypes :
       local_tracks' = [local_tracks EXCEPT ![c] =
                          Append(@, [track_type |-> tt, kind |-> KindOf(tt)])]
  /\ UNCHANGED <<build, sigVars, writeVars, utilVars, sockVars, mgrVars, peers,
                 lockVars, pc, joinVars, room_of, pc_closed, flagVars,
                 chanVars, updVars, media, addr_to_participant, relayVars,
                 obsVars>>

\* Room::handle_incoming_track: a remote track of a peer arrived; its track
\* type is derived from the track id and a relay task is spawned.
handle_incoming_track(c) ==
  /\ build = "webrtc"
  /\ pc[c] = "joined"
  /\ ~pc_closed[c]
  /\ relay_pc[c] = "none"
  /\ \E tid \in TrackIds, k \in Kinds :
       relay_track' = [relay_track EXCEPT ![c] = [id |-> tid, kind |-> k]]
  /\ relay_room' = [relay_room EXCEPT ![c] = room_of[c]]
  /\ relay_pc' = [relay_pc EXCEPT ![c] = "read"]
  /\ UNCHANGED <<build, sigVars, writeVars, utilVars, sockVars, mgrVars, peers,
                 lockVars, pc, joinVars, room_of, pc_closed, flagVars,
                 chanVars, updVars, trackVars, relay_todo, relay_snap,
                 relay_writes, n_pkt, obsVars>>

\* relay_track, track.read(): a packet is read, or the read fails because the
\* peer connection was closed and the loop ends.
relay_read(c) ==
  /\ build = "webrtc"
  /\ relay_pc[c] = "read"
  /\ pc_closed[c] \/ n_pkt[c] < MaxPackets
  /\ IF pc_closed[c]
       THEN /\ relay_pc' = [relay_pc EXCEPT ![c] = "stopped"]
            /\ UNCHANGED n_pkt
       ELSE /\ relay_pc' = [relay_pc EXCEPT ![c] = "snapshot"]
            /\ n_pkt' = [n_pkt EXCEPT ![c] = @ + 1]
  /\ UNCHANGED <<build, sigVars, writeVars, utilVars, sockVars, mgrVars, peers,
                 lockVars, pc, joinVars, room_of, pc_closed, flagVars,
                 chanVars, updVars, trackVars, relay_track, relay_room,
                 relay_todo, relay_snap, relay_writes, obsVars>>

\* relay_track, peers.read(): the read guard of the peer map is taken; it is
\* held until the loop over the peers ends.
relay_peers_read(c) ==
  /\ build = "webrtc"
  /\ relay_pc[c] = "snapshot"
  /\ ReadFree(relay_room[c])
  /\ rlock' = [rlock EXCEPT ![relay_room[c]] = @ \cup {c}]
  /\ relay_todo' = [relay_todo EXCEPT ![c] = RelayRecipients(c)]
  /\ relay_snap' = [relay_snap EXCEPT ![c] =
                      [members |-> Members(relay_room[c]),
                       ready |-> {q \in Conns : Matching(c, q) # {}},
                       flags |-> [q \in Conns |-> get_state(q)]]]
  /\ relay_writes' = [relay_writes EXCEPT ![c] = NoWrites]
  /\ relay_pc' = [relay_pc EXCEPT ![c] = "forward"]
  /\ UNCHANGED <<build, sigVars, writeVars, utilVars, sockVars, mgrVars, peers, wlock,
                 rtc_lock, pc, joinVars, room_of, pc_closed, flagVars,
                 chanVars, updVars, trackVars, relay_track, relay_room, n_pkt,
                 obsVars>>

\* relay_track, the loop over local_tracks of peer q from index n on: the
\* indexes written to.  The loop breaks at the first local track whose
\* track_type and codec kind equal those of the remote track.
RECURSIVE ScanLocalTracks(_, _, _)
ScanLocalTracks(c, q, n) ==
  IF n > Len(local_tracks[q]) THEN <<>>
  ELSE IF /\ local_tracks[q][n].track_type = from_track_id(relay_track[c].id)
          /\ local_tracks[q][n].kind = relay_track[c].kind
    THEN <<n>>
  ELSE ScanLocalTracks(c, q, n + 1)

\* (mutant) a loop that writes to the last matching local track
TracksWrittenLast(c, q) ==
  IF Matching(c, q) = {} THEN <<>>
  ELSE <<CHOOSE n \in Matching(c, q) : \A m \in Matching(c, q) : m <= n>>

\* relay_track: the local tracks of q the packet is written to.
TracksWritten(c, q) == ScanLocalTracks(c, q, 1)

\* (mutant) a loop over the recipients that ends at a failed write
RemainingAfterStopOnError(todo, q, result) ==
  IF result = "Ok" THEN todo \ {q} ELSE {}

\* relay_track / forward_media_data: the recipients still to visit after q;
\* an Err of the write is logged and the loop goes on.
RemainingAfter(todo, q, result) == todo \ {q}

\* The entries a relay logs for the writes of packet n_pkt[c] to peer q.
LogEntries(c, q, tracks) ==
  [k \in 1..Len(tracks) |->
     [pkt |-> n_pkt[c], track |-> tracks[k], result |-> write_err[q]]]

\* relay_track, loop body for one peer: the packet is written to the first
\* matching local track, if the peer has one; the result of write_rtp is
\* only logged.
relay_write_rtp(c) ==
  /\ build = "webrtc"
  /\ relay_pc[c] = "forward"
  /\ \E q \in relay_todo[c] :
       /\ relay_writes' = [relay_writes EXCEPT ![c][q] =
                             @ + Len(TracksWritten(c, q))]
       /\ relay_log' = [relay_log EXCEPT ![c][q] =
                          @ \o LogEntries(c, q, TracksWritten(c, q))]
       /\ relay_todo' = [relay_todo EXCEPT ![c] =
                           RemainingAfter(@, q, IF TracksWritten(c, q) = <<>>
                                                  THEN "Ok" ELSE write_err[q])]
  /\ UNCHANGED <<build, sigVars, write_err, utilVars, sockVars, mgrVars, peers,
                 lockVars, pc, joinVars, room_of, pc_closed, flagVars,
                 chanVars, updVars, trackVars, relay_pc, relay_track,
                 relay_room, relay_snap, n_pkt, obsVars>>

\* (mutant) a relay loop whose peers_guard outlives the iteration
GuardHoldersAfterIterationKept(c) == rlock[relay_room[c]]

\* relay_track: peers_guard is a local of the loop body, so it is dropped
\* when the iteration ends; the holders of a read guard after that.
GuardHoldersAfterIteration(c) == rlock[relay_room[c]] \ {c}

\* relay_track, end of the loop over the peers: the read guard is dropped and
\* the task goes back to reading.
relay_peers_drop(c) ==
  /\ build = "webrtc"
  /\ relay_pc[c] = "forward"
  /\ relay_todo[c] = {}
  /\ rlock' = [rlock EXCEPT ![relay_room[c]] = GuardHoldersAfterIteration(c)]
  /\ relay_pc' = [relay_pc EXCEPT ![c] = "read"]
  /\ UNCHANGED <<build, sigVars, writeVars, utilVars, sockVars, mgrVars, peers, wlock,
                 rtc_lock, pc, joinVars, room_of, pc_closed, flagVars,
                 chanVars, updVars, trackVars, relay_track, relay_room,
                 relay_todo, relay_snap, relay_writes, n_pkt, obsVars>>

\* --------------------------------------------------- str0m build (main.rs)
\* The Room a handler of main.rs finds under its room id (rooms.get(&room_id)).
RoomOf(c) == rooms[rid[c]]

\* handle_ws_connection, join: under the rooms mutex the room is looked up or
\* created, the new Peer is inserted under its id (replacing a peer with the
\* same id), Joined goes to the new peer and ParticipantJoined to every peer
\* stored under another id.
MainJoin(c) ==
  /\ build = "str0m"
  /\ pc[c] = "accepted"
  /\ \E m \in FirstFrames :
       WellFormedJoin(m) /\ first' = [first EXCEPT ![c] = m]
  /\ \E r \in RoomIds, i \in IdChoices(c) :
       LET h == IF rooms[r] # NoRoom THEN rooms[r] ELSE next_room + 1
           others == {peers[h][j] : j \in Ids \ {i}} \ {NoConn}
       IN /\ h \in RoomInsts
          /\ rooms' = [rooms EXCEPT ![r] = h]
          /\ next_room' = IF rooms[r] # NoRoom THEN next_room ELSE next_room + 1
          /\ addr_to_participant' = [addr_to_participant EXCEPT ![c] = i]
          /\ peers' = [peers EXCEPT ![h][i] = c]
          /\ rid' = [rid EXCEPT ![c] = r]
          /\ pid' = [pid EXCEPT ![c] = i]
          /\ ws_tx' = [q \in Conns |->
                         IF q = c /\ rx_open[q] THEN Append(ws_tx[q], Joined(i))
                         ELSE IF q \in others /\ rx_open[q]
                           THEN Append(ws_tx[q], ParticipantJoined(i, NameOf(c)))
                           ELSE ws_tx[q]]
          /\ send_err' = send_failed(others \cup {c})
  /\ pc' = [pc EXCEPT ![c] = "joined"]
  /\ UNCHANGED <<build, n_offer, writeVars, utilVars, sockVars, lockVars, room_of,
                 pc_closed, flagVars, rx_open, updVars, local_tracks, media,
                 relayVars, obsVars>>

\* handle_ws_connection, first frame: when it is not a well-formed Join the
\* handler returns before it touches the rooms; its queue's sender is dropped
\* with it, which ends the egress task.
MainFirstNotJoin(c) ==
  /\ build = "str0m"
  /\ pc[c] = "accepted"
  /\ \E m \in FirstFrames :
       ~WellFormedJoin(m) /\ first' = [first EXCEPT ![c] = m]
  /\ rx_open' = [rx_open EXCEPT ![c] = FALSE]
  /\ pc' = [pc EXCEPT ![c] = "done"]
  /\ UNCHANGED <<build, sigVars, writeVars, utilVars, sockVars, mgrVars, peers,
                 lockVars, rid, pid, room_of, pc_closed, flagVars, ws_tx,
                 updVars, trackVars, relayVars, obsVars>>

\* (mutant) a collection of senders that does not skip the sender's own id
AllSenders(c) == Members(RoomOf(c))

\* handle_client_message, StateUpdate: the senders collected for the
\* notification are those of the peers stored under another id.
OtherSenders(c) == {peers[RoomOf(c)][j] : j \in Ids \ {pid[c]}} \ {NoConn}

\* handle_client_message, StateUpdate, first critical section: the room is
\* looked up and ws_sends_to_notify is collected.
MainStateUpdateCollect(c) ==
  /\ build = "str0m"
  /\ pc[c] = "joined"
  /\ n_upd[c] < MaxUpdates
  /\ RoomOf(c) # NoRoom
  /\ \E t \in Triples : upd' = [upd EXCEPT ![c] = t]
  /\ notify' = [notify EXCEPT ![c] = OtherSenders(c)]
  /\ pc' = [pc EXCEPT ![c] = "su_apply"]
  /\ UNCHANGED <<build, sigVars, writeVars, utilVars, sockVars, mgrVars, peers,
                 lockVars, joinVars, room_of, pc_closed, flagVars, chanVars,
                 n_upd, trackVars, relayVars, obsVars>>

\* handle_client_message, StateUpdate, second critical section: the flags of
\* the peer stored under the sender's id are overwritten, if there is one.
MainStateUpdateApply(c) ==
  /\ build = "str0m"
  /\ pc[c] = "su_apply"
  /\ LET p == IF RoomOf(c) = NoRoom THEN NoConn ELSE peers[RoomOf(c)][pid[c]]
     IN IF p # NoConn
          THEN /\ muted' = [muted EXCEPT ![p] = upd[c][1]]
               /\ video_on' = [video_on EXCEPT ![p] = upd[c][2]]
               /\ screen_sharing' = [screen_sharing EXCEPT ![p] = upd[c][3]]
          ELSE UNCHANGED flagVars
  /\ pc' = [pc EXCEPT ![c] = "su_send"]
  /\ UNCHANGED <<build, sigVars, writeVars, utilVars, sockVars, mgrVars, peers,
                 lockVars, joinVars, room_of, pc_closed, chanVars, updVars,
                 trackVars, relayVars, obsVars>>

\* handle_client_message, StateUpdate, end: the StateUpdate message is sent
\* on every collected sender; a failed send is ignored.
MainStateUpdateSend(c) ==
  /\ build = "str0m"
  /\ pc[c] = "su_send"
  /\ ws_tx' = send_message(notify[c], StateUpdate(pid[c], upd[c]))
  /\ send_err' = send_failed(notify[c])
  /\ notify' = [notify EXCEPT ![c] = {}]
  /\ n_upd' = [n_upd EXCEPT ![c] = @ + 1]
  /\ pc' = [pc EXCEPT ![c] = "joined"]
  /\ UNCHANGED <<build, n_offer, writeVars, utilVars, sockVars, mgrVars, peers,
                 lockVars, joinVars, room_of, pc_closed, flagVars, rx_open,
                 upd, trackVars, relayVars, obsVars>>

\* handle_ws_connection: the read loop ends when the WebSocket closes or
\* yields an error.
MainWsClose(c) ==
  /\ build = "str0m"
  /\ pc[c] = "joined"
  /\ pc' = [pc EXCEPT ![c] = "cleanup"]
  /\ UNCHANGED <<build, sigVars, writeVars, utilVars, sockVars, mgrVars, peers,
                 lockVars, joinVars, room_of, pc_closed, flagVars, chanVars,
                 updVars, trackVars, relayVars, obsVars>>

\* cleanup_peer, then ws_send_task.abort(): the peer stored under the id is
\* taken out of the room's map and the egress task is stopped; nothing is
\* sent to anyone.
cleanup_peer(c) ==
  /\ build = "str0m"
  /\ pc[c] = "cleanup"
  /\ peers' = IF RoomOf(c) = NoRoom THEN peers
              ELSE [peers EXCEPT ![RoomOf(c)][pid[c]] = NoConn]
  /\ addr_to_participant' =
       IF RoomOf(c) = NoRoom THEN addr_to_participant
       ELSE [a \in Conns |-> IF addr_to_participant[a] = pid[c]
                               THEN NoId ELSE addr_to_participant[a]]
  /\ rx_open' = [rx_open EXCEPT ![c] = FALSE]
  /\ pc' = [pc EXCEPT ![c] = "done"]
  /\ UNCHANGED <<build, sigVars, writeVars, utilVars, sockVars, mgrVars, lockVars,
                 joinVars, room_of, pc_closed, flagVars, ws_tx, updVars,
                 local_tracks, media, relayVars, obsVars>>

\* handle_client_message, Offer: the SDP of the answer that accept_offer
\* makes for the offer the handler of c has just read, the (n_offer + 1)-th
\* of its connection; an answer is told from every other by the offer it
\* answers.
accept_offer(c) == <<c, n_offer[c] + 1>>

\* handle_client_message, Offer: the Rtc of the peer stored under the id is
\* locked, the offer is accepted (the Rtc gains the media of the offer) and
\* the answer is sent on the peer's queue.
MainOffer(c) ==
  /\ build = "str0m"
  /\ pc[c] = "joined"
  /\ n_offer[c] < MaxOffers
  /\ RoomOf(c) # NoRoom
  /\ LET p == peers[RoomOf(c)][pid[c]]
     IN IF p = NoConn
          THEN UNCHANGED <<media, ws_tx, send_err>>
          ELSE /\ rtc_lock[p] = NoConn
               /\ \E ks \in (SUBSET Kinds) \ {{}} :
                    media' = [media EXCEPT ![p] = @ \cup ks]
               /\ ws_tx' = send_message({p}, Answer(accept_offer(c)))
               /\ send_err' = send_failed({p})
  /\ n_offer' = [n_offer EXCEPT ![c] = @ + 1]
  /\ UNCHANGED <<build, writeVars, utilVars, sockVars, mgrVars, peers,
                 lockVars, pc, joinVars, room_of, pc_closed, flagVars,
                 rx_open, updVars, local_tracks, addr_to_participant,
                 relayVars, obsVars>>

\* handle_client_message, Candidate: the Rtc of the peer stored under the id
\* is locked, the candidate is added and its address is registered for the
\* participant; drive_rtc_with_udp then polls the Rtc with the lock held.
\* Either it finds no media and the handler returns, or it polls a MediaData
\* event and forward_media_data is called before the lock is dropped.
MainCandidate(c) ==
  /\ build = "str0m"
  /\ pc[c] = "joined"
  /\ RoomOf(c) # NoRoom
  /\ LET p == peers[RoomOf(c)][pid[c]]
     IN /\ p # NoConn
        /\ rtc_lock[p] = NoConn
        /\ addr_to_participant' = [addr_to_participant EXCEPT ![c] = pid[c]]
        /\ \/ UNCHANGED <<rtc_lock, pc, relay_pc, relay_track, relay_room,
                          n_pkt>>
           \/ /\ n_pkt[p] < MaxPackets
              /\ \E k \in media[p] :
                   relay_track' = [relay_track EXCEPT ![p] =
                                     [id |-> {}, kind |-> k]]
              /\ rtc_lock' = [rtc_lock EXCEPT ![p] = c]
              /\ relay_room' = [relay_room EXCEPT ![p] = RoomOf(c)]
              /\ relay_pc' = [relay_pc EXCEPT ![p] = "snapshot"]
              /\ n_pkt' = [n_pkt EXCEPT ![p] = @ + 1]
              /\ pc' = [pc EXCEPT ![c] = "drive_rtc"]
  /\ UNCHANGED <<build, sigVars, writeVars, utilVars, sockVars, mgrVars,
                 peers, wlock, rlock, joinVars, room_of, pc_closed, flagVars,
                 chanVars, updVars, local_tracks, media, relay_todo,
                 relay_snap, relay_writes, obsVars>>

\* (mutant) a filter whose audio test is inverted
MainPassesInverted(k, m, v) == ~(k = "audio" /\ ~m) /\ ~(k = "video" /\ ~v)

\* forward_media_data: a receiver is skipped when the packet is audio and
\* the receiver is muted, or the packet is video and its video is off.
MainPasses(k, m, v) == ~(k = "audio" /\ m) /\ ~(k = "video" /\ ~v)

\* forward_media_data: the peers stored under an id other than from_id.
Receivers(p) == {peers[relay_room[p]][j] : j \in Ids \ {pid[p]}} \ {NoConn}

\* main, UDP task: a datagram from a client's address is mapped to the peer
\* registered for that address, the peer's Rtc is locked and fed the
\* datagram, and drive_rtc_with_udp obtains a MediaData event from it.
udp_recv(a) ==
  /\ build = "str0m"
  /\ \A c \in Conns : rtc_lock[c] # "udp"
  /\ n_pkt[a] < MaxPackets
  /\ addr_to_participant[a] # NoId
  /\ rooms[rid[a]] # NoRoom
  /\ peers[rooms[rid[a]]][addr_to_participant[a]] = a
  /\ rtc_lock[a] = NoConn
  /\ \E k \in media[a] :
       relay_track' = [relay_track EXCEPT ![a] = [id |-> {}, kind |-> k]]
  /\ rtc_lock' = [rtc_lock EXCEPT ![a] = "udp"]
  /\ relay_room' = [relay_room EXCEPT ![a] = rooms[rid[a]]]
  /\ relay_pc' = [relay_pc EXCEPT ![a] = "snapshot"]
  /\ n_pkt' = [n_pkt EXCEPT ![a] = @ + 1]
  /\ UNCHANGED <<build, sigVars, writeVars, utilVars, sockVars, mgrVars, peers, wlock,
                 rlock, pc, joinVars, room_of, pc_closed, flagVars, chanVars,
                 updVars, trackVars, relay_todo, relay_snap, relay_writes,
                 obsVars>>

\* forward_media_data, first block: under the rooms mutex the receivers are
\* collected with their muted and video_on flags.
forward_collect(p) ==
  /\ build = "str0m"
  /\ relay_pc[p] = "snapshot"
  /\ relay_todo' = [relay_todo EXCEPT ![p] =
                      {q \in Receivers(p) :
                         MainPasses(relay_track[p].kind, muted[q], video_on[q])}]
  /\ relay_snap' = [relay_snap EXCEPT ![p] =
                      [members |-> Members(relay_room[p]),
                       ready |-> {q \in Conns : relay_track[p].kind \in media[q]},
                       flags |-> [q \in Conns |-> get_state(q)]]]
  /\ relay_writes' = [relay_writes EXCEPT ![p] = NoWrites]
  /\ relay_pc' = [relay_pc EXCEPT ![p] = "forward"]
  /\ UNCHANGED <<build, sigVars, writeVars, utilVars, sockVars, mgrVars, peers,
                 lockVars, pc, joinVars, room_of, pc_closed, flagVars,
                 chanVars, updVars, trackVars, relay_track, relay_room, n_pkt,
                 obsVars>>

\* forward_media_data, loop body for one receiver: its Rtc is locked and the
\* data is written if the Rtc has a writer for the packet's mid.
forward_write(p) ==
  /\ build = "str0m"
  /\ relay_pc[p] = "forward"
  /\ \E q \in relay_todo[p] :
       /\ rtc_lock[q] = NoConn
       /\ relay_writes' = [relay_writes EXCEPT ![p][q] =
                             IF relay_track[p].kind \in media[q]
                               THEN @ + 1 ELSE @]
       /\ relay_log' = [relay_log EXCEPT ![p][q] =
                          @ \o LogEntries(p, q,
                                 IF relay_track[p].kind \in media[q]
                                   THEN <<0>> ELSE <<>>)]
       /\ relay_todo' = [relay_todo EXCEPT ![p] =
                           RemainingAfter(@, q,
                             IF relay_track[p].kind \in media[q]
                               THEN write_err[q] ELSE "Ok")]
  /\ UNCHANGED <<build, sigVars, write_err, utilVars, sockVars, mgrVars, peers,
                 lockVars, pc, joinVars, room_of, pc_closed, flagVars,
                 chanVars, updVars, trackVars, relay_pc, relay_track,
                 relay_room, relay_snap, n_pkt, obsVars>>

\* forward_media_data returns; drive_rtc_with_udp finds no further output
\* and its caller, the UDP task or a connection handler, drops the lock of
\* the publisher's Rtc; a handler goes back to its read loop.
forward_return(p) ==
  /\ build = "str0m"
  /\ relay_pc[p] = "forward"
  /\ relay_todo[p] = {}
  /\ rtc_lock' = [rtc_lock EXCEPT ![p] = NoConn]
  /\ relay_pc' = [relay_pc EXCEPT ![p] = "none"]
  /\ pc' = [c \in Conns |-> IF c = rtc_lock[p] THEN "joined" ELSE pc[c]]
  /\ UNCHANGED <<build, sigVars, writeVars, utilVars, sockVars, mgrVars,
                 peers, wlock, rlock, joinVars, room_of, pc_closed, flagVars,
                 chanVars, updVars, trackVars, relay_track, relay_room,
                 relay_todo, relay_snap, relay_writes, n_pkt, obsVars>>

\* The egress task of a connection (the single consumer of its queue) ends
\* when a write to the socket fails: the receiver is dropped and later sends
\* to the queue fail.
EgressFail(c) ==
  /\ pc[c] \notin {"absent", "accepted", "done", "rejected"}
  /\ rx_open[c]
  /\ ws_tx[c] # <<>>
  /\ Cardinality({q \in Conns : ~rx_open[q]}) < MaxEgressFail
  /\ rx_open' = [rx_open EXCEPT ![c] = FALSE]
  /\ UNCHANGED <<build, sigVars, writeVars, utilVars, sockVars, mgrVars, peers,
                 lockVars, pc, joinVars, room_of, pc_closed, flagVars, ws_tx,
                 updVars, trackVars, relayVars, obsVars>>

\* Frames a joined client may send that the read loop does not act on: a
\* non-text frame, text that is not a ClientMessage, a second Join, an Offer
\* whose SDP does not parse and a Candidate that does not parse.
LoopFrames == {"binary", "garbage", "join", "bad_offer", "bad_candidate"}

\* handle_ws_connection, read loop: is the frame given to
\* handle_client_message?
Dispatched(m) == m \in {"join", "bad_offer", "bad_candidate"}

\* handle_client_message: does the call return Err?
HandlingFails(m) == m \in {"bad_offer", "bad_candidate"}

\* (mutant) a read loop that ends at a message it cannot handle
AfterDroppedEnds(m) ==
  IF ~Dispatched(m) \/ HandlingFails(m) THEN "cleanup" ELSE "joined"

\* handle_ws_connection, read loop: where the handler is after a frame it
\* did not act on; an Err of handle_client_message is logged and the loop
\* goes on to the next frame.
AfterDropped(m) == "joined"

\* handle_ws_connection, read loop, for a frame of LoopFrames: a frame that
\* is not text or does not parse is skipped; a Join falls to the `_` arm of
\* handle_client_message; an Offer or Candidate that does not parse makes
\* handle_client_message return Err after it has locked and released the
\* rooms and locked the Rtc of the peer stored under the id, if there is one.
MainDropMessage(c) ==
  /\ build = "str0m"
  /\ pc[c] = "joined"
  /\ n_drop[c] < MaxDropped
  /\ \E m \in LoopFrames :
       /\ (HandlingFails(m) /\ RoomOf(c) # NoRoom
             /\ peers[RoomOf(c)][pid[c]] # NoConn)
            => rtc_lock[peers[RoomOf(c)][pid[c]]] = NoConn
       /\ pc' = [pc EXCEPT ![c] = AfterDropped(m)]
  /\ n_drop' = [n_drop EXCEPT ![c] = @ + 1]
  /\ UNCHANGED <<build, sigVars, writeVars, utilVars, sock, mgrVars, peers, lockVars,
                 joinVars, room_of, pc_closed, flagVars, chanVars, updVars,
                 trackVars, relayVars, obsVars>>

\* (mutant) a consumer that takes the newest message of the queue
NextOutNewest(c) == ws_tx[c][Len(ws_tx[c])]

\* ws_send_task: rx.recv() yields the oldest message of the queue that has
\* not been received yet.
NextOut(c) == ws_tx[c][Len(sock[c]) + 1]

\* handle_ws_connection, ws_send_task: the only consumer of the connection's
\* queue receives a message and writes it to the socket (a failed write is
\* EgressFail).
ws_send_task(c) ==
  /\ build = "str0m"
  /\ rx_open[c]
  /\ Len(sock[c]) < Len(ws_tx[c])
  /\ sock' = [sock EXCEPT ![c] = Append(@, NextOut(c))]
  /\ UNCHANGED <<build, sigVars, writeVars, utilVars, n_drop, mgrVars, peers, lockVars,
                 pc, joinVars, room_of, pc_closed, flagVars, chanVars,
                 updVars, trackVars, relayVars, obsVars>>

\* ------------------------------------------------------------- config.rs
\* Values of the fields of a ServerConfig (signaling_port is a u16).
PortValues == {0, 1, 8080, 65535}
MaxParticipantsValues == {0, 1, 50}
IceServersValues == {<<>>, <<"stun">>, <<"stun", "stun1", "turn">>}
PathValues == {"None", "Some"}
Configs ==
  [signaling_port : PortValues,
   max_participants_per_room : MaxParticipantsValues,
   ice_servers : IceServersValues, tls_enabled : BOOLEAN,
   tls_cert_path : PathValues, tls_key_path : PathValues]

\* (mutant) a test that passes when one of the two paths is given
TlsPathsBothMissing(cfg) ==
  cfg.tls_cert_path = "None" /\ cfg.tls_key_path = "None"

\* ServerConfig::validate: tls_cert_path.is_none() || tls_key_path.is_none()
TlsPathsMissing(cfg) ==
  cfg.tls_cert_path = "None" \/ cfg.tls_key_path = "None"

\* ServerConfig::validate: the checks in the order of the code; the result is
\* "Ok" or the message of the first check that fails.
validate(cfg) ==
  IF cfg.signaling_port = 0 THEN "Signaling port cannot be 0"
  ELSE IF cfg.max_participants_per_room = 0
    THEN "Max participants per room must be greater than 0"
  ELSE IF Len(cfg.ice_servers) = 0
    THEN "At least one ICE server must be configured"
  ELSE IF cfg.tls_enabled /\ TlsPathsMissing(cfg)
    THEN "TLS enabled but cert/key paths not provided"
  ELSE "Ok"

\* A caller validates the configuration it holds.
Validate ==
  /\ valid = "none"
  /\ valid' = validate(config)
  /\ UNCHANGED <<build, sigVars, writeVars, mgrVars, peers, lockVars, pc, joinVars,
                 room_of, pc_closed, flagVars, chanVars, updVars, trackVars,
                 relayVars, obsVars, sockVars, config, limiter, clock, calls>>

\* -------------------------------------------------------------- utils.rs
\* RateLimiter::new(max_requests, window).
Limiters ==
  [max_requests : 0..MaxRequests, window : 0..MaxWindow, requests : {<<>>}]

\* check_rate_limit: requests.retain(|&time| now.duration_since(time) <
\* self.window); an Instant of the list is never later than now.
Retained(requests, now, window) ==
  SelectSeq(requests, LAMBDA time : now - time < window)

\* (mutant) a limiter that records every call
PushesAlways(granted) == TRUE

\* check_rate_limit: `now` is pushed in the branch that returns true only.
Pushes(granted) == granted

\* RateLimiter::check_rate_limit, under the write guard of `requests`: the
\* instants outside the window are dropped; the call is granted and recorded
\* when fewer than max_requests remain.
check_rate_limit ==
  /\ Len(calls) < MaxCalls
  /\ LET kept == Retained(limiter.requests, clock, limiter.window)
         granted == Len(kept) < limiter.max_requests
     IN /\ limiter' = [limiter EXCEPT !.requests =
                         IF Pushes(granted) THEN Append(kept, clock) ELSE kept]
        /\ calls' = Append(calls, [at |-> clock, granted |-> granted])
  /\ UNCHANGED <<build, sigVars, writeVars, mgrVars, peers, lockVars, pc, joinVars,
                 room_of, pc_closed, flagVars, chanVars, updVars, trackVars,
                 relayVars, obsVars, sockVars, config, valid, clock>>

\* Time passes between two calls (tokio::time::sleep in test_rate_limiter).
sleep ==
  /\ clock < MaxClock
  /\ clock' = clock + 1
  /\ UNCHANGED <<build, sigVars, writeVars, mgrVars, peers, lockVars, pc, joinVars,
                 room_of, pc_closed, flagVars, chanVars, updVars, trackVars,
                 relayVars, obsVars, sockVars, config, valid, limiter, calls>>

\* ------------------------------------------------------------ specifications
\* The webrtc build: connections join and leave through the RoomManager.
NextRooms ==
  \/ \E c \in Conns : RecvJoin(c)
  \/ \E c \in Conns : get_or_create_room_read(c)
  \/ \E c \in Conns : get_or_create_room_write(c)
  \/ \E c \in Conns : CheckRoomFull(c)
  \/ \E c \in Conns : add_peer_notify(c)
  \/ \E c \in Conns : add_peer_insert(c)
  \/ \E c \in Conns : WsClose(c)
  \/ \E c \in Conns : remove_peer_remove(c)
  \/ \E c \in Conns : remove_peer_close(c)
  \/ \E c \in Conns : remove_peer_notify(c)
  \/ \E c \in Conns : cleanup_empty_room_get(c)
  \/ \E c \in Conns : cleanup_empty_room_check(c)
  \/ \E c \in Conns : cleanup_empty_room_remove(c)
  \/ \E c \in Conns : EgressFail(c)

SpecRooms == InitWith("webrtc", Conns) /\ [][NextRooms]_vars

\* The webrtc build with two connections whose peers' flags are updated and
\* read.
NextPeer ==
  \/ \E c \in Conns : RecvStateUpdate(c)
  \/ \E c \in Conns : update_state_muted(c)
  \/ \E c \in Conns : update_state_video_on(c)
  \/ \E c \in Conns : update_state_screen_sharing(c)
  \/ \E c \in Conns : broadcast_message(c)
  \/ \E p \in Conns : GetStateCall(p)
  \/ get_state_muted
  \/ get_state_video_on
  \/ get_state_screen_sharing

SpecPeer ==
  InitWith("webrtc", {"c1", "c2"}) /\ [][NextRooms \/ NextPeer]_vars

\* The str0m build: connections join, send state updates and leave.
NextMain ==
  \/ \E c \in Conns : MainJoin(c)
  \/ \E c \in Conns : MainFirstNotJoin(c)
  \/ \E c \in Conns : MainStateUpdateCollect(c)
  \/ \E c \in Conns : MainStateUpdateApply(c)
  \/ \E c \in Conns : MainStateUpdateSend(c)
  \/ \E c \in Conns : MainWsClose(c)
  \/ \E c \in Conns : cleanup_peer(c)
  \/ \E c \in Conns : EgressFail(c)

SpecMain == InitWith("str0m", Conns) /\ [][NextMain]_vars

\* Roles of the media scenario: who publishes, who changes its flags and who
\* closes its WebSocket.
Publishers == {"c1"}
Updaters == {"c2"}
Leavers == {"c2"}

\* The state in which c1 and then c2 have joined room r1 and the third
\* connection has been accepted.
InitRelay(b) ==
  /\ build = b
  /\ rooms = [r \in RoomIds |-> 1]
  /\ next_room = 1
  /\ peers = [h \in RoomInsts |->
               IF h = 1 THEN [EmptyPeers EXCEPT !["a"] = "c1", !["b"] = "c2"]
               ELSE EmptyPeers]
  /\ wlock = [h \in RoomInsts |-> NoConn]
  /\ rlock = [h \in RoomInsts |-> {}]
  /\ rtc_lock = [c \in Conns |-> NoConn]
  /\ pc = [c \in Conns |-> IF c = "c3" THEN "accepted" ELSE "joined"]
  /\ rid = [c \in Conns |-> "r1"]
  /\ pid = [c \in Conns |-> IF c = "c2" THEN "b" ELSE "a"]
  /\ first = [c \in Conns |-> IF c = "c3" THEN NoFrame ELSE "join"]
  /\ room_of = [c \in Conns |->
                 IF b = "webrtc" /\ c # "c3" THEN 1 ELSE NoRoom]
  /\ pc_closed = [c \in Conns |-> FALSE]
  /\ muted = [c \in Conns |-> DefaultFlags[1]]
  /\ video_on = [c \in Conns |-> DefaultFlags[2]]
  /\ screen_sharing = [c \in Conns |-> DefaultFlags[3]]
  /\ ws_tx = [c \in Conns |->
               IF b = "webrtc"
                 THEN IF c = "c1" THEN <<ParticipantJoined("b", NameOf("c2"))>>
                      ELSE <<>>
                 ELSE IF c = "c1"
                        THEN <<Joined("a"), ParticipantJoined("b", NameOf("c2"))>>
                      ELSE IF c = "c2" THEN <<Joined("b")>> ELSE <<>>]
  /\ rx_open = [c \in Conns |-> TRUE]
  /\ upd = [c \in Conns |-> DefaultFlags]
  /\ notify = [c \in Conns |-> {}]
  /\ n_upd = [c \in Conns |-> 0]
  /\ local_tracks = [c \in Conns |-> <<>>]
  /\ media = [c \in Conns |-> {}]
  /\ addr_to_participant = [c \in Conns |->
                             IF b = "webrtc" \/ c = "c3" THEN NoId
                             ELSE IF c = "c1" THEN "a" ELSE "b"]
  /\ relay_pc = [c \in Conns |-> "none"]
  /\ relay_track = [c \in Conns |-> NoTrack]
  /\ relay_room = [c \in Conns |-> NoRoom]
  /\ relay_todo = [c \in Conns |-> {}]
  /\ relay_snap = [c \in Conns |-> NoSnap]
  /\ relay_writes = [c \in Conns |-> NoWrites]
  /\ n_pkt = [c \in Conns |-> 0]
  /\ obs_pc = "idle"
  /\ obs_peer = "c1"
  /\ obs_val = DefaultFlags
  /\ obs_pre = [c \in Conns |-> DefaultFlags]
  /\ obs_over = 0
  /\ sock = [c \in Conns |-> <<>>]
  /\ n_drop = [c \in Conns |-> 0]
  /\ relay_log = [c \in Conns |-> NoLog]
  /\ write_err = [c \in Conns |-> "Ok"]
  /\ send_err = [c \in Conns |-> FALSE]
  /\ n_offer = [c \in Conns |-> 0]
  /\ InitUtil

\* Media: peers join and leave while tracks are published and relayed.  The
\* room exists and holds c1 throughout, so it is neither created nor removed.
NextRelay ==
  \/ \E c \in Conns : RecvJoin(c)
  \/ \E c \in Conns : get_or_create_room_read(c)
  \/ \E c \in Conns : CheckRoomFull(c)
  \/ \E c \in Conns : add_peer_notify(c)
  \/ \E c \in Conns : add_peer_insert(c)
  \/ \E c \in Leavers : WsClose(c)
  \/ \E c \in Conns : remove_peer_remove(c)
  \/ \E c \in Conns : remove_peer_close(c)
  \/ \E c \in Conns : remove_peer_notify(c)
  \/ \E c \in Conns : cleanup_empty_room_get(c)
  \/ \E c \in Conns : cleanup_empty_room_check(c)
  \/ \E c \in Conns : AddLocalTrack(c)
  \/ \E c \in Publishers : handle_incoming_track(c)
  \/ \E c \in Conns : relay_read(c)
  \/ \E c \in Conns : relay_peers_read(c)
  \/ \E c \in Conns : relay_write_rtp(c)
  \/ \E c \in Conns : relay_peers_drop(c)
  \/ \E c \in Conns : MainJoin(c)
  \/ \E c \in Updaters : MainStateUpdateCollect(c)
  \/ \E c \in Conns : MainStateUpdateApply(c)
  \/ \E c \in Conns : MainStateUpdateSend(c)
  \/ \E c \in Leavers : MainWsClose(c)
  \/ \E c \in Conns : cleanup_peer(c)
  \/ \E c \in Conns : n_offer[c] = 0 /\ MainOffer(c)   \* one offer each
  \/ \E a \in Publishers : udp_recv(a)
  \/ \E p \in Conns : forward_collect(p)
  \/ \E p \in Conns : forward_write(p)
  \/ \E p \in Conns : forward_return(p)

SpecRelay ==
  (\E b \in {"webrtc", "str0m"} : InitRelay(b)) /\ [][NextRelay]_vars

\* The subscription filter: with c1 and c2 in the room, c2 changes its flags
\* while c1's media is relayed.
NextFilter ==
  \/ \E c \in Updaters : RecvStateUpdate(c)
  \/ \E c \in Conns : update_state_muted(c)
  \/ \E c \in Conns : update_state_video_on(c)
  \/ \E c \in Conns : update_state_screen_sharing(c)
  \/ \E c \in Conns : broadcast_message(c)
  \/ \E c \in Conns : AddLocalTrack(c)
  \/ \E c \in Publishers : handle_incoming_track(c)
  \/ \E c \in Conns : relay_read(c)
  \/ \E c \in Conns : relay_peers_read(c)
  \/ \E c \in Conns : relay_write_rtp(c)
  \/ \E c \in Conns : relay_peers_drop(c)
  \/ \E c \in Updaters : MainStateUpdateCollect(c)
  \/ \E c \in Conns : MainStateUpdateApply(c)
  \/ \E c \in Conns : MainStateUpdateSend(c)
  \/ \E c \in Conns : n_offer[c] = 0 /\ MainOffer(c)   \* one offer each
  \/ \E a \in Publishers : udp_recv(a)
  \/ \E p \in Conns : forward_collect(p)
  \/ \E p \in Conns : forward_write(p)
  \/ \E p \in Conns : forward_return(p)

SpecFilter ==
  (\E b \in {"webrtc", "str0m"} : InitRelay(b)) /\ [][NextFilter]_vars

\* Teardown: the publisher c1 and the member c2 close their WebSockets while
\* c1's track is relayed and a third connection joins.
NextTeardown ==
  \/ \E c \in Conns : RecvJoin(c)
  \/ \E c \in Conns : get_or_create_room_read(c)
  \/ \E c \in Conns : get_or_create_room_write(c)
  \/ \E c \in Conns : CheckRoomFull(c)
  \/ \E c \in Conns : add_peer_notify(c)
  \/ \E c \in Conns : add_peer_insert(c)
  \/ \E c \in Publishers \cup Leavers : WsClose(c)
  \/ \E c \in Conns : remove_peer_remove(c)
  \/ \E c \in Conns : remove_peer_close(c)
  \/ \E c \in Conns : remove_peer_notify(c)
  \/ \E c \in Conns : cleanup_empty_room_get(c)
  \/ \E c \in Conns : cleanup_empty_room_check(c)
  \/ \E c \in Conns : cleanup_empty_room_remove(c)
  \/ \E c \in Leavers : AddLocalTrack(c)
  \/ \E c \in Publishers : handle_incoming_track(c)
  \/ \E c \in Conns : relay_read(c)
  \/ \E c \in Conns : relay_peers_read(c)
  \/ \E c \in Conns : relay_write_rtp(c)
  \/ \E c \in Conns : relay_peers_drop(c)

SpecTeardown == InitRelay("webrtc") /\ [][NextTeardown]_vars

\* Two callers of Peer::update_state: the handler of a member's connection
\* and a task that holds the same peer.
NextFlags ==
  \/ \E c \in Conns : RecvStateUpdate(c)
  \/ \E c \in Conns : update_state_muted(c)
  \/ \E c \in Conns : update_state_video_on(c)
  \/ \E c \in Conns : update_state_screen_sharing(c)
  \/ \E c \in Conns : broadcast_message(c)
  \/ \E p \in Conns : UpdateStateCall(p)
  \/ task_update_state_muted
  \/ task_update_state_video_on
  \/ task_update_state_screen_sharing

SpecFlags == InitRelay("webrtc") /\ [][NextFlags]_vars

\* The str0m build with two connections and the egress tasks of their
\* sockets.
NextEgress ==
  \/ NextMain
  \/ \E c \in Conns : ws_send_task(c)

SpecEgress == InitWith("str0m", {"c1", "c2"}) /\ [][NextEgress]_vars

\* The webrtc build with three connections that join and send state
\* updates while a socket may fail.
NextBroadcast ==
  \/ \E c \in Conns : RecvJoin(c)
  \/ \E c \in Conns : get_or_create_room_read(c)
  \/ \E c \in Conns : get_or_create_room_write(c)
  \/ \E c \in Conns : CheckRoomFull(c)
  \/ \E c \in Conns : add_peer_notify(c)
  \/ \E c \in Conns : add_peer_insert(c)
  \/ \E c \in Conns : RecvStateUpdate(c)
  \/ \E c \in Conns : update_state_muted(c)
  \/ \E c \in Conns : update_state_video_on(c)
  \/ \E c \in Conns : update_state_screen_sharing(c)
  \/ \E c \in Conns : broadcast_message(c)
  \/ \E c \in Conns : EgressFail(c)

SpecBroadcast == InitWith("webrtc", Conns) /\ [][NextBroadcast]_vars

\* The str0m build with two connections whose clients also send frames the
\* read loop drops.
NextLoop ==
  \/ NextMain
  \/ \E c \in Conns : MainDropMessage(c)

SpecLoop == InitWith("str0m", {"c1", "c2"}) /\ [][NextLoop]_vars

\* ServerConfig::validate applied to every configuration of Configs.
InitConfig ==
  /\ InitServer("str0m", {})
  /\ config \in Configs
  /\ valid = "none"
  /\ limiter = NoLimiter /\ clock = 0 /\ calls = <<>>

NextConfig == Validate

SpecConfig == InitConfig /\ [][NextConfig]_vars

\* A RateLimiter of Limiters whose check_rate_limit is called as time passes.
InitLimiter ==
  /\ InitServer("str0m", {})
  /\ config = DefaultServerConfig /\ valid = "none"
  /\ limiter \in Limiters
  /\ clock = 0 /\ calls = <<>>

NextLimiter == check_rate_limit \/ sleep

SpecLimiter == InitLimiter /\ [][NextLimiter]_vars

\* The fan-out scenario: c1 publishes to the two other members of its room.
\* The lists of local tracks a recipient may have, its media in the str0m
\* build, and what a write to a recipient returns.
LocalTrackValues == {[track_type |-> tt, kind |-> KindOf(tt)] : tt \in TrackTypes}
TrackLists ==
  UNION {[1..n -> LocalTrackValues] : n \in 0..MaxListedTracks}
WriteResults == {"Ok", "InvalidState", "Error"}
Recipients == {"c2", "c3"}

\* The state in which c1, c2 and c3 have joined room r1 as a, b and c and the
\* recipients have their local tracks (webrtc) or media (str0m).
InitWrites(b) ==
  /\ build = b
  /\ rooms = [r \in RoomIds |-> 1]
  /\ next_room = 1
  /\ peers = [h \in RoomInsts |->
               IF h = 1 THEN [a |-> "c1", b |-> "c2", c |-> "c3"]
               ELSE EmptyPeers]
  /\ wlock = [h \in RoomInsts |-> NoConn]
  /\ rlock = [h \in RoomInsts |-> {}]
  /\ rtc_lock = [c \in Conns |-> NoConn]
  /\ pc = [c \in Conns |-> "joined"]
  /\ rid = [c \in Conns |-> "r1"]
  /\ pid = [c1 |-> "a", c2 |-> "b", c3 |-> "c"]
  /\ first = [c \in Conns |-> "join"]
  /\ room_of = [c \in Conns |-> IF b = "webrtc" THEN 1 ELSE NoRoom]
  /\ pc_closed = [c \in Conns |-> FALSE]
  /\ muted = [c \in Conns |-> DefaultFlags[1]]
  /\ video_on = [c \in Conns |-> DefaultFlags[2]]
  /\ screen_sharing = [c \in Conns |-> DefaultFlags[3]]
  /\ ws_tx = [c \in Conns |->
               (IF b = "str0m" THEN <<Joined(pid[c])>> ELSE <<>>)
                 \o (IF c = "c1" THEN <<ParticipantJoined("b", NameOf("c2"))>>
                     ELSE <<>>)
                 \o (IF c # "c3" THEN <<ParticipantJoined("c", NameOf("c3"))>>
                     ELSE <<>>)]
  /\ rx_open = [c \in Conns |-> TRUE]
  /\ upd = [c \in Conns |-> DefaultFlags]
  /\ notify = [c \in Conns |-> {}]
  /\ n_upd = [c \in Conns |-> 0]
  /\ local_tracks \in [Conns -> TrackLists]
  /\ \A c \in Conns :
       (b = "str0m" \/ c \notin Recipients) => local_tracks[c] = <<>>
  /\ media \in [Conns -> SUBSET Kinds]
  /\ \A c \in Conns :
       /\ b = "webrtc" => media[c] = {}
       /\ (b = "str0m" /\ c \notin Recipients) => media[c] = Kinds
  /\ addr_to_participant = [c \in Conns |->
                             IF b = "webrtc" THEN NoId ELSE pid[c]]
  /\ relay_pc = [c \in Conns |-> "none"]
  /\ relay_track = [c \in Conns |-> NoTrack]
  /\ relay_room = [c \in Conns |-> NoRoom]
  /\ relay_todo = [c \in Conns |-> {}]
  /\ relay_snap = [c \in Conns |-> NoSnap]
  /\ relay_writes = [c \in Conns |-> NoWrites]
  /\ n_pkt = [c \in Conns |-> 0]
  /\ obs_pc = "idle"
  /\ obs_peer = "c1"
  /\ obs_val = DefaultFlags
  /\ obs_pre = [c \in Conns |-> DefaultFlags]
  /\ obs_over = 0
  /\ sock = [c \in Conns |-> <<>>]
  /\ n_drop = [c \in Conns |-> 0]
  /\ relay_log = [c \in Conns |-> NoLog]
  /\ write_err \in [Conns -> WriteResults]
  /\ \A c \in Conns : c \notin Recipients => write_err[c] = "Ok"
  /\ send_err = [c \in Conns |-> FALSE]
  /\ n_offer = [c \in Conns |-> 0]
  /\ InitUtil

NextWrites ==
  \/ \E c \in Publishers : handle_incoming_track(c)
  \/ \E c \in Conns : relay_read(c)
  \/ \E c \in Conns : relay_peers_read(c)
  \/ \E c \in Conns : relay_write_rtp(c)
  \/ \E c \in Conns : relay_peers_drop(c)
  \/ \E a \in Publishers : udp_recv(a)
  \/ \E p \in Conns : forward_collect(p)
  \/ \E p \in Conns : forward_write(p)
  \/ \E p \in Conns : forward_return(p)

SpecWrites ==
  (\E b \in {"webrtc", "str0m"} : InitWrites(b)) /\ [][NextWrites]_vars

\* Failed sends: two clients join, change their flags and leave while the
\* egress task of one of them may end, under either server.
NextSendError ==
  \/ \E c \in Conns : RecvJoin(c)
  \/ \E c \in Conns : get_or_create_room_read(c)
  \/ \E c \in Conns : get_or_create_room_write(c)
  \/ \E c \in Conns : CheckRoomFull(c)
  \/ \E c \in Conns : add_peer_notify(c)
  \/ \E c \in Conns : add_peer_insert(c)
  \/ \E c \in Conns : RecvStateUpdate(c)
  \/ \E c \in Conns : update_state_muted(c)
  \/ \E c \in Conns : update_state_video_on(c)
  \/ \E c \in Conns : update_state_screen_sharing(c)
  \/ \E c \in Conns : broadcast_message(c)
  \/ \E c \in Conns : WsClose(c)
  \/ \E c \in Conns : remove_peer_remove(c)
  \/ \E c \in Conns : remove_peer_close(c)
  \/ \E c \in Conns : remove_peer_notify(c)
  \/ \E c \in Conns : cleanup_empty_room_get(c)
  \/ \E c \in Conns : cleanup_empty_room_check(c)
  \/ \E c \in Conns : cleanup_empty_room_remove(c)
  \/ NextMain

SpecSendError ==
  (\E b \in {"webrtc", "str0m"} : InitWith(b, {"c1", "c2"}))
    /\ [][NextSendError]_vars

\* Joins: three clients join through the webrtc build's handler, which sends
\* Joined with the roster before it calls add_peer.
NextJoins ==
  \/ \E c \in Conns : RecvJoin(c)
  \/ \E c \in Conns : get_or_create_room_read(c)
  \/ \E c \in Conns : get_or_create_room_write(c)
  \/ \E c \in Conns : CheckRoomFull(c)
  \/ \E c \in Conns : SendJoined(c)
  \/ \E c \in Conns : HasJoined(c) /\ add_peer_notify(c)
  \/ \E c \in Conns : add_peer_insert(c)

SpecJoins == InitWith("webrtc", Conns) /\ [][NextJoins]_vars

\* Media of two publishers: c1 and c2, members of one room of the str0m
\* server, negotiate media and send it, while their clients also send
\* candidates.
MediaPeers == {"c1", "c2"}

NextMedia ==
  \/ \E c \in MediaPeers : n_offer[c] = 0 /\ MainOffer(c)
  \/ \E c \in MediaPeers : MainCandidate(c)
  \/ \E a \in MediaPeers : udp_recv(a)
  \/ \E p \in Conns : forward_collect(p)
  \/ \E p \in Conns : forward_write(p)
  \/ \E p \in Conns : forward_return(p)

SpecMedia == InitRelay("str0m") /\ [][NextMedia]_vars

\* After a removal: c1 publishes and changes its flags, c2 receives and then
\* closes its WebSocket, and a third client joins the room.
NextAfterRemove ==
  \/ \E c \in Conns : RecvJoin(c)
  \/ \E c \in Conns : get_or_create_room_read(c)
  \/ \E c \in Conns : CheckRoomFull(c)
  \/ \E c \in Conns : add_peer_notify(c)
  \/ \E c \in Conns : add_peer_insert(c)
  \/ \E c \in Leavers : WsClose(c)
  \/ \E c \in Conns : remove_peer_remove(c)
  \/ \E c \in Conns : remove_peer_close(c)
  \/ \E c \in Conns : remove_peer_notify(c)
  \/ \E c \in Publishers : RecvStateUpdate(c)
  \/ \E c \in Conns : update_state_muted(c)
  \/ \E c \in Conns : update_state_video_on(c)
  \/ \E c \in Conns : update_state_screen_sharing(c)
  \/ \E c \in Conns : broadcast_message(c)
  \/ \E c \in Leavers : AddLocalTrack(c)
  \/ \E c \in Publishers : handle_incoming_track(c)
  \/ \E c \in Conns : relay_read(c)
  \/ \E c \in Conns : relay_peers_read(c)
  \/ \E c \in Conns : relay_write_rtp(c)
  \/ \E c \in Conns : relay_peers_drop(c)

SpecAfterRemove == InitRelay("webrtc") /\ [][NextAfterRemove]_vars

\* Offers: two clients of the str0m server, who may give the same
\* participant id, join, send offers and leave, while the egress task of one
\* of them may end.
NextOffers ==
  \/ \E c \in Conns : MainJoin(c)
  \/ \E c \in Conns : MainOffer(c)
  \/ \E c \in Conns : MainWsClose(c)
  \/ \E c \in Conns : cleanup_peer(c)
  \/ \E c \in Conns : EgressFail(c)

SpecOffers == InitWith("str0m", {"c1", "c3"}) /\ [][NextOffers]_vars

Next ==
  \/ NextRooms \/ NextPeer \/ NextMain \/ NextRelay \/ NextFilter
  \/ NextFlags \/ NextTeardown \/ NextEgress \/ NextBroadcast
  \/ NextLoop \/ NextConfig \/ NextLimiter \/ NextWrites
  \/ NextSendError \/ NextOffers \/ NextJoins \/ NextMedia
  \/ NextAfterRemove

Spec == Init /\ [][Next]_vars

\* ------------------------------------------------------------------- claims
\* C1: every get_or_create_room(x) call returns the Room instance the manager
\* holds under x right after the call, and a call that ends while x is
\* registered returns the registered instance (it never puts another one in
\* its place), so concurrent calls for a new id get the same instance.
C1_SameRoomInstance ==
  [][\A c \in Conns :
       (pc[c] \in {"goc_read", "goc_write"} /\ pc'[c] = "have_room")
         => /\ rooms'[rid[c]] = room_of'[c]
            /\ (rooms[rid[c]] # NoRoom => room_of'[c] = rooms[rid[c]])]_vars

\* C3: cleanup_empty_room never takes out of the manager a room that holds a
\* peer at the moment of the removal.
C3_CleanupRemovesOnlyEmptyRoom ==
  [][\A x \in RoomIds :
       (rooms[x] # NoRoom /\ rooms'[x] = NoRoom) => is_empty(rooms[x])]_vars

\* C4: remove_peer(id) for an id the room does not hold changes nothing: the
\* member map stays as it is, no peer is closed and no message is enqueued.
C4_RemoveAbsentIsNoOp ==
  [][\A c \in Conns :
       (pc[c] \in {"rp_close", "rp_notify"} /\ pc'[c] # pc[c] /\ notify[c] = {})
         => /\ ws_tx' = ws_tx
            /\ peers' = peers
            /\ pc_closed' = pc_closed]_vars

C6_RoomNeverOverCapacity ==
  \A h \in RoomInsts : peer_count(h) <= max_participants_per_room

\* The step with which connection c, a member of its room, finishes leaving:
\* Room::remove_peer returning in the webrtc build, cleanup_peer in the str0m
\* build.
LeaveCompletes(c) ==
  IF build = "webrtc"
    THEN pc[c] = "rp_notify" /\ pc'[c] = "ce_get" /\ notify[c] = {c}
    ELSE /\ pc[c] = "cleanup" /\ pc'[c] = "done"
         /\ RoomOf(c) # NoRoom
         /\ peers[RoomOf(c)][pid[c]] = c

\* The room a leaving connection was a member of.
LeftRoom(c) == IF build = "webrtc" THEN room_of[c] ELSE RoomOf(c)

\* C8: when a member's WebSocket has closed and its removal has run, the
\* member is out of the map, every remaining member has been sent exactly one
\* ParticipantLeft carrying its id, and the leaver has been sent none.
C8_LeaveNotifiesRemaining ==
  [][\A c \in Conns :
       LeaveCompletes(c)
         => /\ c \notin {peers'[LeftRoom(c)][i] : i \in Ids}
            /\ \A q \in Conns : ws_tx'[q] =
                 IF q \in Members(LeftRoom(c))' /\ q # c /\ rx_open[q]
                   THEN Append(ws_tx[q], ParticipantLeft(pid[c]))
                   ELSE ws_tx[q]]_vars

\* C9: a state_update from member p sets p's flags to the triple it carries,
\* is sent exactly once to every other member of p's room, and never to p.
C9_StateUpdateFanOut ==
  /\ [](\A c \in Conns, t \in Triples : Count(c, StateUpdate(pid[c], t)) = 0)
  /\ [][\A c \in Conns :
          /\ (pc[c] = "joined" /\ pc'[c] = "su_apply"
                /\ peers[RoomOf(c)][pid[c]] = c)
               => notify'[c] = Members(RoomOf(c)) \ {c}
          /\ (pc[c] = "su_apply" /\ pc'[c] = "su_send"
                /\ RoomOf(c) # NoRoom /\ peers[RoomOf(c)][pid[c]] = c)
               => get_state(c)' = upd[c]
          /\ (pc[c] = "su_send" /\ pc'[c] = "joined")
               => \A q \in Conns : ws_tx'[q] =
                    IF q \in notify[c] /\ rx_open[q]
                      THEN Append(ws_tx[q], StateUpdate(pid[c], upd[c]))
                      ELSE ws_tx[q]]_vars

\* A member's update has reached another member, and the sender's flags
\* carry the triple.
C9_Witness ==
  \E c \in Conns, q \in Conns :
    /\ build = "str0m" /\ q # c
    /\ pc[c] = "joined" /\ n_upd[c] = 1
    /\ q \in Members(RoomOf(c))
    /\ peers[RoomOf(c)][pid[c]] = c
    /\ get_state(c) = upd[c]
    /\ Count(q, StateUpdate(pid[c], upd[c])) = 1

\* C2: a get_state() that overlaps exactly one update_state(m,v,s) returns
\* the triple the peer held before that update or exactly (m,v,s).
C2_GetStateNeverTorn ==
  [][(obs_pc = "gs_screen_sharing" /\ obs_pc' = "returned" /\ obs_over = 1)
       => obs_val' \in {obs_pre[obs_peer], upd[obs_peer]}]_vars

\* C5: no relay iteration visits or writes to the peer that published the
\* packet.
C5_NoSelfForward ==
  \A c \in Conns : c \notin relay_todo[c] /\ relay_writes[c][c] = 0

\* A packet of a publisher that is a member, and has an output of its own
\* that matches the packet, was written to another peer.
C5_Witness ==
  \E c \in Conns, q \in Conns :
    /\ q # c
    /\ relay_writes[c][q] = 1
    /\ c \in relay_snap[c].members
    /\ c \in relay_snap[c].ready

\* The step that ends a relay iteration.
IterationEnds(c) == relay_pc[c] = "forward" /\ relay_pc'[c] # "forward"

\* The members other than the publisher when the snapshot was taken.
Others(c) == relay_snap[c].members \ {c}

\* The track type of the packet a relay iteration handles.
PacketType(c) ==
  IF build = "webrtc" THEN from_track_id(relay_track[c].id)
  ELSE IF relay_track[c].kind = "audio" THEN "Audio" ELSE "Camera"

\* spec.md 4.4 step 4b: the flags (muted, video_on, screen_sharing) of a
\* recipient enable a track type.
FlagsEnable(tt, t) ==
  IF tt = "Audio" THEN ~t[1] ELSE IF tt = "Camera" THEN t[2] ELSE t[3]

\* Every other member's flags enabled the packet's type at the snapshot.
AllEnabled(c) ==
  \A q \in Others(c) : FlagsEnable(PacketType(c), relay_snap[c].flags[q])

\* Exactly one write per other member, none to anyone else.
OneWriteEach(c) ==
  \A q \in Conns : relay_writes[c][q] = IF q \in Others(c) THEN 1 ELSE 0

\* C10 as stated: if every other peer's flags enable the packet's type, the
\* iteration issues exactly N-1 writes, one per other peer.
C10_FanOutAsStated ==
  [][\A c \in Conns :
       (IterationEnds(c) /\ c \in relay_snap[c].members /\ AllEnabled(c))
         => OneWriteEach(c)]_vars

\* C10 (amended): if every other peer's flags enable the packet's type and
\* every other peer has an output that matches the packet (a local track of
\* its track type and codec kind; in main.rs a writer for its mid), the
\* iteration issues exactly N-1 writes, one per other peer.
C10_FanOutComplete ==
  [][\A c \in Conns :
       (IterationEnds(c) /\ c \in relay_snap[c].members /\ AllEnabled(c)
          /\ Others(c) \subseteq relay_snap[c].ready)
         => OneWriteEach(c)]_vars

\* An iteration for a room of three has ended with a write to each of the two
\* other members.
C10_Witness ==
  \E c \in Conns :
    /\ n_pkt[c] = 1
    /\ relay_pc[c] \notin {"snapshot", "forward"}
    /\ c \in relay_snap[c].members
    /\ Cardinality(Others(c)) = 2
    /\ AllEnabled(c)
    /\ Others(c) \subseteq relay_snap[c].ready
    /\ OneWriteEach(c)

\* C17: when the first frame of a connection is not a well-formed Join
\* (another message type, a non-text or close frame, text that does not
\* parse, or the end of the stream), the connection ends: no peer and no room
\* is created or changed and nothing is enqueued for any client.
C17_BadFirstFrameEndsSilently ==
  [][\A c \in Conns :
       (first[c] = NoFrame /\ first'[c] \notin {NoFrame, "join"})
         => /\ pc'[c] = "done"
            /\ rooms' = rooms /\ next_room' = next_room
            /\ peers' = peers
            /\ addr_to_participant' = addr_to_participant
            /\ media' = media
            /\ <<muted, video_on, screen_sharing>>' =
                 <<muted, video_on, screen_sharing>>
            /\ ws_tx' = ws_tx]_vars

\* A connection whose first frame was a well-formed message of another type
\* has ended while another connection is a member of the room.
C17_Witness ==
  \E c \in Conns, q \in Conns :
    /\ first[c] = "other" /\ pc[c] = "done"
    /\ pc[q] = "joined" /\ peers[RoomOf(q)][pid[q]] = q
    /\ ws_tx[c] = <<>>

\* The step in which the relay of publisher c writes the packet to q.
WritesTo(c, q) == relay_writes'[c][q] > relay_writes[c][q]

\* The flags of recipient q as the relay of c has them when it handles q:
\* forward_media_data copied them when it collected the receivers;
\* relay_track takes no copy, so they are the peer's flags when its turn in
\* the loop comes.
FlagsRead(c, q) ==
  IF build = "webrtc" THEN get_state(q) ELSE relay_snap[c].flags[q]

\* C11: an Audio packet is never written to a recipient whose muted flag is
\* true when the relay reads the recipient's flags.
C11_AudioNotToMuted ==
  [][\A c \in Conns, q \in Conns :
       (WritesTo(c, q) /\ PacketType(c) = "Audio") => ~FlagsRead(c, q)[1]]_vars

\* C12: a Camera packet is never written to a recipient whose video_on flag
\* is false when the relay reads the recipient's flags.
C12_CameraNotToVideoOff ==
  [][\A c \in Conns, q \in Conns :
       (WritesTo(c, q) /\ PacketType(c) = "Camera") => FlagsRead(c, q)[2]]_vars

\* C13: a Screen packet is written to a recipient only if the recipient's
\* screen_sharing flag is true when the relay reads the recipient's flags.
C13_ScreenOnlyToSharing ==
  [][\A c \in Conns, q \in Conns :
       (WritesTo(c, q) /\ PacketType(c) = "Screen") => FlagsRead(c, q)[3]]_vars

\* C14: in every state of a Room, peer_count() is the number of entries of
\* the member map and the number of peers get_all_peers() returns, is_empty()
\* holds exactly when that number is 0, every entry's key is the id of the
\* Peer stored under it, and get_peer(p.id) returns every member p.
C14_RoomMapConsistent ==
  \A h \in RoomInsts :
    /\ peer_count(h) = Cardinality(Members(h))
    /\ is_empty(h) <=> peer_count(h) = 0
    /\ \A i \in Ids : peers[h][i] # NoConn => pid[peers[h][i]] = i
    /\ \A q \in Members(h) : peers[h][pid[q]] = q

\* A room of two members in which a peer took the place of another peer that
\* had joined under the same id and has not left.
C14_Witness ==
  \E h \in RoomInsts, c \in Conns, q \in Conns :
    /\ q # c /\ pid[q] = pid[c]
    /\ peers[h][pid[c]] = c
    /\ pc[q] = "joined" /\ room_of[q] = h
    /\ peer_count(h) = 2

\* C15: a cleanup_empty_room(x) call that finds x absent from the manager, or
\* finds that the room holds at least one peer, returns false (it ends
\* without reaching the removal) and none of its steps changes the manager's
\* room map or any room's member map.
C15_CleanupNoOp ==
  [][\A c \in Conns :
       /\ (pc[c] = "ce_get" /\ pc'[c] # "ce_get")
            => /\ rooms' = rooms /\ peers' = peers
               /\ rooms[rid[c]] = NoRoom => pc'[c] = "done"
       /\ (pc[c] = "ce_empty" /\ pc'[c] # "ce_empty"
              /\ peer_count(room_of[c]) >= 1)
            => pc'[c] = "done" /\ rooms' = rooms /\ peers' = peers]_vars

\* A cleanup_empty_room call has returned and the room it looked at is still
\* registered and holds a peer.
C15_Witness ==
  \E c \in Conns, q \in Conns :
    /\ build = "webrtc" /\ pc[c] = "done"
    /\ room_of[c] # NoRoom /\ rooms[rid[c]] = room_of[c]
    /\ pc[q] = "joined" /\ peers[room_of[c]][pid[q]] = q

\* C16: after the last member of a room has disconnected and no join to the
\* room follows, the room is eventually removed from the manager.  Stated on
\* the states in which every connection has ended, where no task is left to
\* run: by then no room is registered any more.
C16_EmptyRoomCollected ==
  (\A c \in Conns : pc[c] \in {"done", "rejected"})
    => \A r \in RoomIds : rooms[r] = NoRoom

\* C18: the relay loop of room.rs does not hold the read guard of the room's
\* member map while it awaits write_rtp: the guard is released before any
\* packet is written to a recipient's local track.
C18_NoGuardAcrossWrite ==
  [][\A c \in Conns, q \in Conns :
       (build = "webrtc" /\ WritesTo(c, q))
         => c \notin rlock[relay_room[c]]]_vars

\* The update_state calls the handler of p's connection has completed.
HandlerCalls(p) == n_upd[p] + (IF pc[p] = "bc_state" THEN 1 ELSE 0)

\* C20: update_state replaces the triple atomically: when update_state(t1),
\* called by the peer's handler, and update_state(t2), called by another
\* task, have both returned, the peer's triple is t1 or t2, never a mix.
C20_UpdateStateAtomic ==
  \A p \in Conns :
    (/\ obs_pc = "updated" /\ obs_peer = p
     /\ pc[p] \notin Updating /\ HandlerCalls(p) = 1)
      => get_state(p) \in {upd[p], obs_val}

\* Positions of a handler after Room::remove_peer has returned.
AfterRemovePeer == {"ce_get", "ce_empty", "ce_remove", "done"}

\* C19: after a peer's WebSocket has closed, remove_peer closes the peer's
\* connection, so that the reads of its relay tasks fail and the tasks end:
\* once remove_peer has returned, a relay task of the peer that waits in
\* track.read() waits on a closed connection; a relay task ends at its first
\* failed read; and an ended relay task forwards nothing.
C19_CloseStopsRelays ==
  /\ [](\A c \in Conns :
          (build = "webrtc" /\ pc[c] \in AfterRemovePeer
             /\ relay_pc[c] = "read") => pc_closed[c])
  /\ [][\A c \in Conns :
          (relay_pc[c] = "read" /\ pc_closed[c] /\ relay_pc'[c] # "read")
            => relay_pc'[c] = "stopped"]_vars
  /\ [][\A c \in Conns :
          relay_pc[c] = "stopped"
            => relay_pc'[c] = "stopped"
               /\ relay_writes'[c] = relay_writes[c]]_vars

\* The step in which connection c becomes a member of its room: the insert
\* of Room::add_peer, or the join of handle_ws_connection.
JoinCompletes(c) ==
  /\ pc[c] \in {"ap_insert", "accepted"}
  /\ pc'[c] = "joined"

\* The members, stored under another id, of the room c joins, as they are
\* just before c becomes a member.
MembersBeforeJoin(c) ==
  LET h == IF build = "webrtc" THEN room_of[c] ELSE rooms'[rid'[c]]
  IN {peers[h][j] : j \in Ids \ {pid'[c]}} \ {NoConn}

\* C21: in the queue of a peer q that was a member when p joined,
\* ParticipantJoined for p comes before every StateUpdate of p: when p
\* becomes a member, ParticipantJoined{p} is already in the queue of every
\* such q whose queue is open, and p has not yet sent a StateUpdate.
C21_JoinedBeforeStateUpdate ==
  [][\A c \in Conns :
       JoinCompletes(c)
         => /\ n_upd[c] = 0
            /\ \A q \in MembersBeforeJoin(c) :
                 rx_open[q]
                   => \E k \in 1..Len(ws_tx'[q]) :
                        ws_tx'[q][k] = ParticipantJoined(pid'[c], NameOf(c))]_vars

\* C22: every message for a client goes through the connection's queue and
\* its single consumer: what has been written to a socket is, in order and
\* each message once, an initial part of what was put on the queue, and the
\* socket changes only by the consumer writing the next message of the queue.
C22_EgressInOrder ==
  /\ [](\A c \in Conns :
          /\ Len(sock[c]) <= Len(ws_tx[c])
          /\ \A k \in 1..Len(sock[c]) : sock[c][k] = ws_tx[c][k])
  /\ [][\A c \in Conns :
          sock'[c] # sock[c]
            => /\ rx_open[c]
               /\ Len(sock[c]) < Len(ws_tx[c])
               /\ sock'[c] = Append(sock[c], ws_tx[c][Len(sock[c]) + 1])]_vars

\* C22 witness: a socket has received two different messages while a third
\* is still on the queue.
C22_Witness ==
  \E c \in Conns :
    /\ Len(sock[c]) = 2
    /\ sock[c][1] # sock[c][2]
    /\ Len(ws_tx[c]) > 2

\* C23: broadcast_message(from_id, msg) puts msg once on the queue of every
\* peer of the room stored under an id other than from_id and on no other
\* queue; a recipient whose queue is closed is passed over, the others still
\* get the message, and the call returns to its caller without an error.
C23_BroadcastSkipsSenderOnly ==
  [][\A c \in Conns :
       (pc[c] = "bc_state" /\ pc'[c] # "bc_state")
         => /\ pc'[c] = "joined"
            /\ \A q \in Conns :
                 ws_tx'[q] =
                   IF /\ \E j \in Ids : j # pid[c] /\ peers[room_of[c]][j] = q
                      /\ rx_open[q]
                     THEN Append(ws_tx[q], StateUpdate(pid[c], upd[c]))
                     ELSE ws_tx[q]]_vars

\* C23 witness: a broadcast has reached one recipient although the queue of
\* another recipient of the same room was closed, and it is not on the
\* sender's queue.
C23_Witness ==
  \E c \in Conns, q1 \in Conns, q2 \in Conns :
    /\ pc[c] = "joined" /\ n_upd[c] = 1
    /\ {q1, q2} \subseteq Members(room_of[c]) \ {c}
    /\ ~rx_open[q1] /\ Count(q1, StateUpdate(pid[c], upd[c])) = 0
    /\ rx_open[q2] /\ Count(q2, StateUpdate(pid[c], upd[c])) = 1
    /\ Count(c, StateUpdate(pid[c], upd[c])) = 0

\* C24: after a join, an inbound message that is malformed, of an unexpected
\* type or whose handling fails is dropped: the handler stays in its read
\* loop, the rooms, their members and the queues are as before, no peer's
\* flags change, and a later state_update of the connection is still
\* handled.
C24_BadMessageDropped ==
  /\ [][\A c \in Conns :
          n_drop'[c] # n_drop[c]
            => /\ pc'[c] = "joined"
               /\ rooms' = rooms /\ peers' = peers
               /\ addr_to_participant' = addr_to_participant
               /\ muted' = muted /\ video_on' = video_on
               /\ screen_sharing' = screen_sharing
               /\ ws_tx' = ws_tx /\ rx_open' = rx_open]_vars
  /\ [](\A c \in Conns :
          (n_drop[c] > 0 /\ pc[c] = "joined" /\ n_upd[c] < MaxUpdates)
            => ENABLED MainStateUpdateCollect(c))

\* C24 witness: a connection whose read loop dropped two messages has then
\* had a state_update handled, and its peer is still in the room.
C24_Witness ==
  \E c \in Conns :
    /\ n_drop[c] = 2 /\ pc[c] = "su_send"
    /\ peers[RoomOf(c)][pid[c]] = c
    /\ get_state(c) = upd[c] /\ upd[c] # DefaultFlags

\* The roster a Joined message carries; a message without the field lists
\* nobody.
Roster(m) == IF "participants" \in DOMAIN m THEN m.participants ELSE {}

\* C25: the Joined message put on the queue of a joining peer carries the
\* peer's id and a roster with the id, name and flags of exactly the peers
\* that were members when it joined, the joining peer not among them.
C25_JoinedCarriesRoster ==
  [][\A c \in Conns :
       (pc[c] = "accepted" /\ pc'[c] = "joined")
         => LET m == ws_tx'[c][Len(ws_tx'[c])]
            IN /\ Len(ws_tx'[c]) = Len(ws_tx[c]) + 1
               /\ m.type = "joined"
               /\ m.your_id = pid'[c]
               /\ Roster(m) = {ParticipantInfo(q) : q \in MembersBeforeJoin(c)}
               /\ \A r \in Roster(m) : r.id # pid'[c]]_vars

\* Has the handler of connection c had no state_update message so far?
NeverUpdated(c) ==
  /\ n_upd[c] = 0
  /\ pc[c] \notin Updating \cup {"bc_state", "su_apply", "su_send"}

\* C26: a peer that has never issued a state update has the flags muted =
\* false, video_on = true, screen_sharing = false, and these are the flags
\* reported for it: the Joined message of a peer that joins its room lists
\* it with these flags.
C26_DefaultFlagsReported ==
  /\ [](\A c \in Conns : NeverUpdated(c) => get_state(c) = DefaultFlags)
  /\ [][\A c \in Conns :
          (pc[c] = "accepted" /\ pc'[c] = "joined")
            => \A q \in MembersBeforeJoin(c) :
                 NeverUpdated(q)
                   => \E r \in Roster(ws_tx'[c][Len(ws_tx'[c])]) :
                        /\ r.id = pid[q]
                        /\ <<r.muted, r.video_on, r.screen_sharing>>
                             = DefaultFlags]_vars

\* C27: ServerConfig::validate fails exactly when signaling_port is 0, or
\* max_participants_per_room is 0, or ice_servers is empty, or tls_enabled
\* is true while the cert path or the key path is missing; it succeeds for
\* every other configuration, the default one among them.
C27_ValidateFailsExactlyWhen ==
  valid # "none"
    => /\ valid # "Ok"
            <=> \/ config.signaling_port = 0
                \/ config.max_participants_per_room = 0
                \/ config.ice_servers = <<>>
                \/ /\ config.tls_enabled
                   /\ \/ config.tls_cert_path = "None"
                      \/ config.tls_key_path = "None"
       /\ config = DefaultServerConfig => valid = "Ok"

\* C27 witness: a configuration with TLS enabled and a certificate but no
\* key has been refused.
C27_Witness ==
  /\ valid \notin {"none", "Ok"}
  /\ config.signaling_port # 0 /\ config.max_participants_per_room # 0
  /\ config.ice_servers # <<>>
  /\ config.tls_enabled
  /\ config.tls_cert_path = "Some" /\ config.tls_key_path = "None"

\* The calls before call k that returned true and lie within the window
\* that precedes call k.
GrantsInWindow(k) ==
  {j \in 1..(k - 1) :
     calls[j].granted /\ calls[k].at - calls[j].at < limiter.window}

\* C28: check_rate_limit returns true exactly when fewer than max_requests
\* calls that returned true lie within the preceding window (a rejected call
\* is not counted); so among the calls made within a span shorter than the
\* window at most max_requests return true, and a call is granted again once
\* all earlier grants are older than the window.
C28_RateLimit ==
  /\ \A k \in 1..Len(calls) :
       calls[k].granted
         <=> Cardinality(GrantsInWindow(k)) < limiter.max_requests
  /\ \A t \in 0..MaxClock :
       Cardinality({k \in 1..Len(calls) :
                      /\ calls[k].granted
                      /\ t <= calls[k].at
                      /\ calls[k].at < t + limiter.window})
         <= limiter.max_requests
  /\ \A k \in 1..Len(calls) :
       (/\ limiter.max_requests > 0
        /\ \A j \in 1..(k - 1) :
             calls[j].granted => calls[k].at - calls[j].at > limiter.window)
         => calls[k].granted

\* C28 witness: with max_requests = 2, two calls were granted, a third one
\* within the window was rejected, and a call made when the grants had left
\* the window was granted again.
C28_Witness ==
  /\ limiter.max_requests = 2 /\ limiter.window = 2
  /\ Len(calls) = 4
  /\ calls[1].granted /\ calls[2].granted /\ ~calls[3].granted
  /\ calls[3].at - calls[1].at < limiter.window
  /\ calls[4].granted
  /\ calls[4].at - calls[2].at >= limiter.window

\* The writes relay c has logged for recipient q and packet k.
WritesOf(c, q, k) ==
  {n \in 1..Len(relay_log[c][q]) : relay_log[c][q][n].pkt = k}

\* C29: within one relay iteration a packet is written at most once per
\* recipient; the write goes to the first local track of the recipient's
\* list whose track_type and codec kind equal those of the remote track;
\* and a recipient without such a local track is written nothing.
C29_FirstMatchingTrackOnce ==
  /\ [](\A c \in Conns, q \in Conns :
          /\ \A k \in 1..MaxPackets : Cardinality(WritesOf(c, q, k)) <= 1
          /\ build = "webrtc"
               => \A n \in 1..Len(relay_log[c][q]) :
                    LET t == relay_log[c][q][n].track
                    IN /\ t \in Matching(c, q)
                       /\ \A m \in 1..(t - 1) : m \notin Matching(c, q))
  /\ [][\A c \in Conns, q \in Conns :
          (/\ build = "webrtc"
           /\ q \in relay_todo[c] /\ q \notin relay_todo'[c]
           /\ Matching(c, q) = {})
            => relay_log'[c][q] = relay_log[c][q]]_vars

\* C29 witness: a recipient whose two local tracks both match
\* has been written the packet once, on the first of them, while the other
\* recipient, which has no matching local track, has been written nothing.
C29_Witness ==
  \E c \in Conns, q1 \in Conns, q2 \in Conns :
    /\ build = "webrtc" /\ relay_pc[c] = "read" /\ n_pkt[c] = 1
    /\ Cardinality(Matching(c, q1)) = 2
    /\ Len(relay_log[c][q1]) = 1 /\ relay_log[c][q1][1].track = 1
    /\ local_tracks[q2] # <<>> /\ Matching(c, q2) = {}
    /\ relay_log[c][q2] = <<>>

\* The recipients relay c writes the current packet to when no write stops
\* the loop: in the webrtc build the peers stored under another id that
\* have a matching local track, in the str0m build the receivers that pass
\* the filter and have a writer for the packet's media.
ExpectedWrites(c) ==
  IF build = "webrtc"
    THEN {q \in RelayRecipients(c) : Matching(c, q) # {}}
    ELSE {q \in Receivers(c) :
            /\ MainPasses(relay_track[c].kind, relay_snap[c].flags[q][1],
                          relay_snap[c].flags[q][2])
            /\ relay_track[c].kind \in media[q]}

\* C30: a failed write to one recipient (InvalidState or another error)
\* neither ends the relay nor keeps the packet from the remaining
\* recipients, and later packets are still forwarded: when the loop over
\* the recipients ends, every recipient with a matching track has been
\* written the packet, whatever the writes returned, and the relay goes on
\* to the next packet.
C30_WriteErrorDoesNotStop ==
  [][\A c \in Conns :
       /\ (relay_pc[c] = "forward" /\ relay_pc'[c] # "forward")
            => /\ relay_pc'[c] = IF build = "webrtc" THEN "read" ELSE "none"
               /\ \A q \in ExpectedWrites(c) :
                    Cardinality(WritesOf(c, q, n_pkt[c])) = 1
       /\ relay_pc[c] = "forward" => relay_pc'[c] # "stopped"]_vars

\* C30 witness: the write of the first packet to one recipient failed, the
\* other recipient was written it all the same, and the second packet has
\* been written to both.
C30_Witness ==
  \E c \in Conns, q1 \in Conns, q2 \in Conns :
    /\ q1 # q2
    /\ write_err[q1] # "Ok" /\ write_err[q2] = "Ok"
    /\ Cardinality(WritesOf(c, q1, 1)) = 1
    /\ Cardinality(WritesOf(c, q2, 1)) = 1
    /\ Cardinality(WritesOf(c, q1, 2)) = 1
    /\ Cardinality(WritesOf(c, q2, 2)) = 1

\* C31: remove_peer does not hold the write guard of the room's member map
\* while it awaits peer.close(): the entry is removed, the guard is released,
\* and only then is the peer connection closed.
C31_NoWriteGuardAcrossClose ==
  [][\A c \in Conns :
       (build = "webrtc" /\ pc[c] = "rp_close" /\ pc'[c] # "rp_close")
         => wlock[room_of[c]] # c]_vars

\* C32: the relay loop holds no room-wide lock while it awaits the read of
\* the next RTP packet: a relay task that waits in track.read() holds no
\* guard of any member map, and every read begins and ends without one.
C32_NoGuardAcrossRead ==
  /\ [](\A c \in Conns : \A h \in RoomInsts :
          relay_pc[c] = "read" => c \notin rlock[h])
  /\ [][\A c \in Conns : \A h \in RoomInsts :
          (relay_pc[c] = "read" /\ relay_pc'[c] # "read")
            => c \notin rlock[h] /\ c \notin rlock'[h]]_vars

\* C32 witness: a relay task waits for its second packet after an iteration
\* in which it took the read guard and wrote the first packet to a peer.
C32_Witness ==
  \E c \in Conns, q \in Conns :
    /\ build = "webrtc"
    /\ relay_pc[c] = "read"
    /\ n_pkt[c] = 1
    /\ relay_writes[c] # NoWrites
    /\ relay_writes[c][q] = 1
    /\ c \notin rlock[relay_room[c]]

\* Positions at which a connection handler waits for its client or has
\* ended: it takes no further step unless a frame arrives or the socket
\* closes.
Waiting == {"absent", "accepted", "joined", "done", "rejected"}

\* C33: a peer whose outbound queue is closed, and to which a send has
\* failed, is treated as disconnected: it is removed from its room and the
\* remaining members are sent ParticipantLeft, without any further input
\* from a client.  Stated on the states in which every handler waits for its
\* client or has ended, where the server has nothing left to run.
C33_SendErrorDisconnects ==
  (\A c \in Conns : pc[c] \in Waiting)
    => \A q \in Conns :
         send_err[q]
           => \A h \in RoomInsts :
                /\ q \notin Members(h)
                /\ \A m \in Members(h) :
                     (h = room_of[q] \/ h = rooms[rid[q]])
                       => Count(m, ParticipantLeft(pid[q])) >= 1

\* handle_client_message, Offer, returns Ok for the offer the handler of c
\* reads next: the room and the peer are found and the answer is accepted by
\* the queue.
OfferSucceeds(c) ==
  /\ RoomOf(c) # NoRoom
  /\ peers[RoomOf(c)][pid[c]] # NoConn
  /\ rx_open[peers[RoomOf(c)][pid[c]]]

\* C34: for each peer, offers are handled one at a time in arrival order:
\* the step that handles offer k of a connection enqueues the answer to
\* offer k to that connection's peer and nothing to any other peer, before
\* offer k + 1 is taken, and a successfully handled offer yields exactly one
\* answer.
C34_OffersAnsweredInOrder ==
  [][\A c \in Conns :
       n_offer'[c] # n_offer[c]
         => /\ n_offer'[c] = n_offer[c] + 1
            /\ \A q \in Conns \ {c} : ws_tx'[q] = ws_tx[q]
            /\ OfferSucceeds(c)
                 => ws_tx'[c] = Append(ws_tx[c], Answer(<<c, n_offer'[c]>>))
            /\ ~OfferSucceeds(c) => ws_tx'[c] = ws_tx[c]]_vars

\* C35: a message received on a participant's connection never changes the
\* flags of any other participant and never changes the membership of a room
\* other than by that participant's own join or leave: a step of the handler
\* of connection c leaves the flags of every other peer as they were and
\* neither adds any other peer to a room nor removes one.
C35_HandlerTouchesOwnPeerOnly ==
  [][\A c \in Conns :
       pc'[c] # pc[c]
         => \A q \in Conns \ {c} :
              /\ get_state(q)' = get_state(q)
              /\ \A h \in RoomInsts :
                   (q \in Members(h)') <=> (q \in Members(h))]_vars

\* The Room a joined connection's peer was put in.
JoinedRoom(c) == IF build = "webrtc" THEN room_of[c] ELSE RoomOf(c)

\* C36: every peer whose join has completed and whose connection has not
\* yet ended is a member of its room, also when another connection joins
\* the same room with the same participant id and when that connection
\* later closes: a disconnect removes only the closing connection's peer.
C36_JoinedPeerIsMember ==
  \A c \in Conns :
    pc[c] = "joined"
      => JoinedRoom(c) # NoRoom /\ c \in Members(JoinedRoom(c))

\* Was peer x told about peer y: a ParticipantJoined for y, or a Joined whose
\* roster lists y, was put on x's queue.
ToldAbout(x, y) ==
  \E k \in 1..Len(ws_tx[x]) :
    \/ ws_tx[x][k] = ParticipantJoined(pid[y], NameOf(y))
    \/ /\ ws_tx[x][k].type = "joined"
       /\ \E r \in Roster(ws_tx[x][k]) : r.id = pid[y]

\* C37: of any two distinct peers that are both members of a room after
\* their add_peer calls have returned, at least one was told about the other
\* (by a ParticipantJoined notification or by its Joined roster), also when
\* the two add_peer calls run concurrently.  Peers to which a send failed
\* are left aside.
C37_OneOfTwoIsTold ==
  \A h \in RoomInsts : \A c \in Members(h), q \in Members(h) :
    (c # q /\ ~send_err[c] /\ ~send_err[q])
      => ToldAbout(c, q) \/ ToldAbout(q, c)

\* A step of a forward_media_data call.
ForwardStep ==
  \E p \in Conns : forward_collect(p) \/ forward_write(p) \/ forward_return(p)

\* C38: media forwarding never deadlocks: when two peers of a room each
\* process inbound media at the same time, each holding the lock of its own
\* session while it forwards to the other, both forwardings complete.  Stated
\* on every state: while a forward_media_data call is under way, one of the
\* calls under way can take its next step.
C38_ForwardingNeverDeadlocks ==
  (\E p \in Conns : relay_pc[p] \in {"snapshot", "forward"})
    => ENABLED ForwardStep

\* C39: in every reachable state each Room that holds at least one peer is
\* the instance registered in the RoomManager under its id: no peer is a
\* member of a room that get_room(id), for the id of the peer's Join, does
\* not return.
C39_MembersInRegisteredRoom ==
  \A h \in RoomInsts : \A c \in Members(h) :
    build = "webrtc" => rooms[rid[c]] = h

\* C40: once remove_peer(p) has returned, no relay iteration and no
\* broadcast that starts afterwards writes a packet or enqueues a message to
\* p, unless p is added to the room again: remove_peer returns with no entry
\* under the id and with the removed peer out of the map; a relay iteration
\* visits only peers that are members when it starts and writes only to
\* peers it visits; a broadcast enqueues only to members.
C40_NothingSentAfterRemoval ==
  /\ [][\A c \in Conns :
          (pc[c] = "rp_notify" /\ pc'[c] # "rp_notify")
            => /\ peers'[room_of[c]][pid[c]] = NoConn
               /\ \A q \in notify[c] : q \notin Members(room_of[c])']_vars
  /\ [][\A c \in Conns :
          (build = "webrtc" /\ relay_pc[c] = "snapshot"
             /\ relay_pc'[c] = "forward")
            => relay_todo'[c] \subseteq Members(relay_room[c])]_vars
  /\ [][\A c \in Conns, q \in Conns :
          (build = "webrtc" /\ relay_log'[c][q] # relay_log[c][q])
            => q \in relay_todo[c] /\ q \in relay_snap[c].members]_vars
  /\ [][\A c \in Conns, q \in Conns :
          (pc[c] = "bc_state" /\ pc'[c] # "bc_state" /\ ws_tx'[q] # ws_tx[q])
            => q \in Members(room_of[c])]_vars

\* C40 witness: c2 received the first packet of c1's track, then closed and
\* was removed; remove_peer has returned, c1's relay has gone through the
\* iteration of its second packet and c1 has broadcast a state update, and
\* neither that packet nor the update went to c2.
C40_Witness ==
  /\ build = "webrtc"
  /\ pc["c2"] \in AfterRemovePeer
  /\ relay_pc["c1"] = "read" /\ n_pkt["c1"] = 2
  /\ Len(relay_log["c1"]["c2"]) = 1
  /\ relay_log["c1"]["c2"][1].pkt = 1
  /\ n_upd["c1"] = 1 /\ pc["c1"] = "joined"
  /\ Count("c2", StateUpdate(pid["c1"], upd["c1"])) = 0

====
